---- MODULE Spec2Model ----
(***************************************************************************)
(* Helios multi-agent query pipeline: the embedding index                  *)
(* (VectorEmbeddingService), the hybrid retriever (RetrievalAgent), the    *)
(* router's keyword fallback (RouterAgent), the synthesizer                *)
(* (SynthesizerAgent) and the orchestrator (AgentOrchestrator) in its      *)
(* batched and its streaming mode.                                         *)
(*                                                                         *)
(* Numbers that are floats in the program are kept exact: a similarity or  *)
(* a confidence is an integer number of hundredths, a search quality is a  *)
(* fraction [num, den] of hundredths.                                      *)
(***************************************************************************)
EXTENDS Integers, Sequences, FiniteSets, TLC

VARIABLES
    kb,          \* db.knowledge_base: documents in insertion order
    nextId,      \* the next ObjectId the store hands out
    calls,       \* the index calls made so far, oldest first
    env,         \* what a RetrievalAgent is wired to: service, uploads, config
    ret,         \* the last retrieve call: its inputs, trace and result
    cls,         \* the last classification of the router
    syn,         \* the last synthesize call: its inputs, trace and result
    ses,         \* one batched session of the orchestrator
    stm,         \* one streaming session of the orchestrator, and its script
    perf,        \* performance_metrics of the agent instances
    tasks,       \* the requests and background tasks in flight: position, locals
    db           \* db.goals and db.strategic_plans

vars == <<kb, nextId, calls, env, ret, cls, syn, ses, stm, perf, tasks, db>>

(***************************************************************************)
(* Bounds of the model                                                     *)
(***************************************************************************)
MaxRows == 2
MaxBatch == 2
MaxCalls == 2
MaxStubHits == 2
MaxUploads == 1
MaxKeywords == 2
MaxEvidence == 2
MaxTicks == 1

Goals == {"g1", "g2"}


(***************************************************************************)
(* Helpers on sequences and sets                                           *)
(***************************************************************************)
RECURSIVE SumSeq(_)
SumSeq(s) ==
    IF s = <<>> THEN 0 ELSE Head(s) + SumSeq(Tail(s))

Range(s) == {s[i] : i \in DOMAIN s}

Prefix(s, n) == SubSeq(s, 1, IF Len(s) < n THEN Len(s) ELSE n)

SeqsUpTo(S, n) == UNION {[1..k -> S] : k \in 0..n}

Min2(a, b) == IF a < b THEN a ELSE b

Max2(a, b) == IF a > b THEN a ELSE b

RECURSIVE SqrtSearch(_, _, _)
SqrtSearch(v, lo, hi) ==
    IF lo >= hi THEN lo
    ELSE LET mid == (lo + hi + 1) \div 2
         IN IF mid * mid <= v THEN SqrtSearch(v, mid, hi)
            ELSE SqrtSearch(v, lo, mid - 1)

ISqrt(v) == SqrtSearch(v, 0, v)

(***************************************************************************)
(* Strings.  A string is a sequence of lines, a line a sequence of the     *)
(* segments its colons separate, a segment a sequence of tokens; a token   *)
(* is a number or a word.  The empty string has no line.                   *)
(***************************************************************************)
Num(n) == [t |-> "num", n |-> n, s |-> ""]

Str(w) == [t |-> "str", n |-> 0, s |-> w]

NaN == [t |-> "nan", n |-> 0, s |-> ""]

IsNum(c) == c.t = "num"

EmptyStr == <<>>

(***************************************************************************)
(* DataFrames (pd.read_csv): columns in file order, rows as functions from *)
(* column to cell; the index is the RangeIndex 0..n-1.                     *)
(***************************************************************************)
Columns == <<"Revenue", "Region">>

FullRow == [Revenue |-> Num(1), Region |-> Str("east")]

BlankRow == [Revenue |-> NaN, Region |-> NaN]

RowPool == {FullRow, BlankRow}

Datasets == SeqsUpTo(RowPool, MaxRows)

ColumnCells(df, col) == [i \in DOMAIN df |-> df[i][col]]

NonNaN(cells) == SelectSeq(cells, LAMBDA c : c.t # "nan")

\* The dtype pandas infers for a column of a parsed CSV file.
Dtype(df, col) ==
    LET cells == ColumnCells(df, col)
    IN IF Len(df) = 0 THEN "object"
       ELSE IF \A i \in DOMAIN cells : cells[i].t = "num" THEN "int64"
       ELSE IF \A i \in DOMAIN cells : cells[i].t \in {"num", "nan"} THEN "float64"
       ELSE "object"

NumericCols(df) ==
    SelectSeq(Columns, LAMBDA col : Dtype(df, col) \in {"int64", "float64"})

(***************************************************************************)
(* Series.describe() of a numeric column, each figure in hundredths as     *)
(* the :.2f format prints it; NaN when pandas has nothing to compute from. *)
(***************************************************************************)
RECURSIVE SumCells(_)
SumCells(cells) ==
    IF cells = <<>> THEN 0 ELSE Head(cells).n + SumCells(Tail(cells))

RECURSIVE SumSquares(_)
SumSquares(cells) ==
    IF cells = <<>> THEN 0
    ELSE Head(cells).n * Head(cells).n + SumSquares(Tail(cells))

RoundDiv(a, b) == (2 * a + b) \div (2 * b)

RECURSIVE InsertSorted(_, _)
InsertSorted(x, s) ==
    IF s = <<>> THEN <<x>>
    ELSE IF x <= Head(s) THEN <<x>> \o s
    ELSE <<Head(s)>> \o InsertSorted(x, Tail(s))

RECURSIVE SortCells(_)
SortCells(cells) ==
    IF cells = <<>> THEN <<>>
    ELSE InsertSorted(Head(cells).n, SortCells(Tail(cells)))

Describe(df, col) ==
    LET xs == NonNaN(ColumnCells(df, col))
        n == Len(xs)
        sorted == SortCells(xs)
        sum == SumCells(xs)
        sq == SumSquares(xs)
    IN IF n = 0
       THEN [mean |-> NaN, median |-> NaN, min |-> NaN, max |-> NaN, std |-> NaN]
       ELSE [mean |-> Num(RoundDiv(100 * sum, n)),
             median |-> Num(IF n % 2 = 1 THEN 100 * sorted[(n + 1) \div 2]
                            ELSE 50 * (sorted[n \div 2] + sorted[n \div 2 + 1])),
             min |-> Num(100 * sorted[1]),
             max |-> Num(100 * sorted[n]),
             std |-> IF n = 1 THEN NaN
                     ELSE Num(ISqrt((10000 * (n * sq - sum * sum)) \div (n * (n - 1))))]

(***************************************************************************)
(* VectorEmbeddingService.chunk_csv_data                                   *)
(***************************************************************************)
RecordCap == 1000

RECURSIVE ColumnTokens(_)
ColumnTokens(cols) ==
    IF cols = <<>> THEN <<>> ELSE <<Str(Head(cols))>> \o ColumnTokens(Tail(cols))

\* The segments of ", ".join("key: value") behind the tokens `carry`: the
\* colon of every pair ends one segment and starts the next.
RECURSIVE PairSegments(_, _)
PairSegments(pairs, carry) ==
    IF pairs = <<>> THEN <<carry>>
    ELSE <<carry \o <<Head(pairs)[1]>> >> \o PairSegments(Tail(pairs), <<Head(pairs)[2]>>)

DtypePairs(df) ==
    [i \in DOMAIN Columns |-> <<Str(Columns[i]), Str(Dtype(df, Columns[i]))>>]

SummaryText(df) ==
    << << <<Str("Dataset Overview")>>,
          <<Str("This dataset contains"), Num(Len(df)), Str("records with columns")>> >>
       \o (IF Len(df) > 0
           THEN PairSegments(DtypePairs(df), ColumnTokens(Columns) \o <<Str("Data types")>>)
           ELSE <<ColumnTokens(Columns)>>) >>

SummaryChunk(df, goal_id) ==
    [text |-> SummaryText(df), type |-> "summary",
     metadata |-> [goal_id |-> goal_id, row_count |-> Len(df)]]

\* The (column, cell) pairs of the cells of a row that are not NaN.
RECURSIVE RowDescription(_, _)
RowDescription(row, cols) ==
    IF cols = <<>> THEN <<>>
    ELSE (IF row[Head(cols)].t # "nan"
          THEN << <<Str(Head(cols)), row[Head(cols)]>> >>
          ELSE <<>>)
         \o RowDescription(row, Tail(cols))

RecordText(idx, row) ==
    << << <<Str("Record"), Num(idx + 1)>> >>
       \o PairSegments(RowDescription(row, Columns), <<>>) >>

\* The record chunks of the rows i, i + 1, ... of df.head(1000): a row of
\* which no cell has a value gets none.
RecordChunksOfEveryRow(df, i, goal_id) ==
    LET described == SelectSeq([k \in 1..(Len(df) - i + 1) |-> k + i - 1],
                               LAMBDA r : RowDescription(df[r], Columns) # <<>>)
    IN [k \in DOMAIN described |->
           [text |-> RecordText(described[k] - 1, df[described[k]]), type |-> "record",
            metadata |-> [goal_id |-> goal_id, row_index |-> described[k] - 1]]]

RecordChunks(df, i, goal_id) ==
    LET last == Min2(Len(df), RecordCap)
        described == SelectSeq([k \in 1..(last - i + 1) |-> k + i - 1],
                               LAMBDA r : RowDescription(df[r], Columns) # <<>>)
    IN [k \in DOMAIN described |->
           [text |-> RecordText(described[k] - 1, df[described[k]]), type |-> "record",
            metadata |-> [goal_id |-> goal_id, row_index |-> described[k] - 1]]]

StatsText(df, col) ==
    LET stats == Describe(df, col)
    IN << << <<Str("Statistical analysis of"), Str(col)>>,
             <<Str("mean"), stats.mean, Str("median"), stats.median,
               Str("min"), stats.min, Str("max"), stats.max,
               Str("standard deviation"), stats.std>> >> >>

RECURSIVE StatsChunks(_, _, _)
StatsChunks(df, cols, goal_id) ==
    IF cols = <<>> THEN <<>>
    ELSE << [text |-> StatsText(df, Head(cols)), type |-> "statistics",
             metadata |-> [goal_id |-> goal_id, column |-> Head(cols)]] >>
         \o StatsChunks(df, Tail(cols), goal_id)

chunk_csv_data(df, goal_id) ==
    <<SummaryChunk(df, goal_id)>>
    \o RecordChunks(df, 1, goal_id)
    \o StatsChunks(df, NumericCols(df), goal_id)

(***************************************************************************)
(* VectorEmbeddingService: the document store                              *)
(***************************************************************************)
\* hashlib.md5(text).hexdigest(): distinct texts have distinct digests.
Md5(text) == <<"md5", text>>

GoalChunksOfAll(docs, goal_id) == docs

GoalChunks(docs, goal_id) ==
    SelectSeq(docs, LAMBDA d : d.goal_id = goal_id)

FindOneRehashed(docs, goal_id, chunk_hash) ==
    SelectSeq(docs, LAMBDA d : d.goal_id = goal_id /\ d.chunk_hash = Md5(chunk_hash))

\* find_one({"goal_id": ..., "chunk_hash": ...}): the matches, first one first.
FindOne(docs, goal_id, chunk_hash) ==
    SelectSeq(docs, LAMBDA d : d.goal_id = goal_id /\ d.chunk_hash = chunk_hash)

\* The loop of store_knowledge_base over chunks[i..]: every lookup reads the
\* collection as it was when the call began; `documents` is inserted later.
RECURSIVE StoreLoop(_, _, _, _, _, _)
StoreLoop(docs, goal_id, chunks, i, documents, chunk_ids) ==
    IF i > Len(chunks) THEN [documents |-> documents, chunk_ids |-> chunk_ids]
    ELSE LET chunk == chunks[i]
             chunk_hash == Md5(chunk.text)
             existing == FindOne(docs, goal_id, chunk_hash)
         IN IF existing # <<>>
            THEN StoreLoop(docs, goal_id, chunks, i + 1, documents,
                           Append(chunk_ids, existing[1].id))
            ELSE StoreLoop(docs, goal_id, chunks, i + 1,
                           Append(documents,
                                  [goal_id |-> goal_id, text |-> chunk.text,
                                   chunk_hash |-> chunk_hash, type |-> chunk.type,
                                   metadata |-> chunk.metadata]),
                           chunk_ids)

\* insert_many: the documents get consecutive fresh ids, in order.
InsertMany(docs, first_id, documents) ==
    docs \o [k \in DOMAIN documents |->
                [id |-> first_id + k - 1] @@ documents[k]]

InsertedIds(first_id, documents) ==
    [k \in DOMAIN documents |-> first_id + k - 1]

store_knowledge_base(docs, first_id, goal_id, chunks) ==
    IF chunks = <<>>
    THEN [kb |-> docs, nextId |-> first_id, chunk_ids |-> <<>>]
    ELSE LET loop == StoreLoop(docs, goal_id, chunks, 1, <<>>, <<>>)
         IN [kb |-> InsertMany(docs, first_id, loop.documents),
             nextId |-> first_id + Len(loop.documents),
             chunk_ids |-> loop.chunk_ids \o InsertedIds(first_id, loop.documents)]

ChunkTypes == {"summary", "record", "statistics"}

get_goal_knowledge_stats(docs, goal_id) ==
    LET mine == GoalChunks(docs, goal_id)
        type_counts == [ty \in {mine[i].type : i \in DOMAIN mine} |->
                           Len(SelectSeq(mine, LAMBDA d : d.type = ty))]
    IN [goal_id |-> goal_id,
        total_chunks |-> Len(mine),
        chunk_types |-> type_counts,
        has_data |-> Len(mine) > 0]

delete_goal_knowledge(docs, goal_id) ==
    [kb |-> SelectSeq(docs, LAMBDA d : d.goal_id # goal_id),
     deleted_count |-> Len(GoalChunks(docs, goal_id))]

(***************************************************************************)
(* Calls on the index                                                      *)
(***************************************************************************)
\* A free-text chunk, and the chunk chunk_csv_data builds for a first row.
PoolChunk(w) ==
    [text |-> << << <<Str(w)>> >> >>, type |-> "record",
     metadata |-> [goal_id |-> "", row_index |-> 0]]

ChunkPool == {PoolChunk("alpha"), RecordChunks(<<FullRow>>, 1, "")[1]}

Batches == SeqsUpTo(ChunkPool, MaxBatch)

CallRecord(op, goal_id, df, ids, stored, before, after) ==
    [op |-> op, goal_id |-> goal_id, df |-> df, ids |-> ids,
     stored |-> stored, total_before |-> before, total_after |-> after]

\* chunk_csv_data on every dataset of the model, computed once.
ChunksOf == [g \in Goals, df \in Datasets |-> chunk_csv_data(df, g)]

\* Background ingestion of one upload: chunk the file, store the chunks.
IngestDataset(goal_id, df) ==
    LET chunks == ChunksOf[goal_id, df]
        r == store_knowledge_base(kb, nextId, goal_id, chunks)
    IN /\ Len(calls) < MaxCalls
       /\ kb' = r.kb
       /\ nextId' = r.nextId
       /\ calls' = Append(calls,
              CallRecord("ingest", goal_id, df, r.chunk_ids,
                         Len(r.kb) - Len(kb),
                         get_goal_knowledge_stats(kb, goal_id).total_chunks,
                         get_goal_knowledge_stats(r.kb, goal_id).total_chunks))
       /\ UNCHANGED <<env, ret, cls, syn, ses, stm, perf, tasks, db>>

\* store_knowledge_base on a batch of chunks of the caller's choosing.
StoreBatch(goal_id, chunks) ==
    LET r == store_knowledge_base(kb, nextId, goal_id, chunks)
    IN /\ Len(calls) < MaxCalls
       /\ kb' = r.kb
       /\ nextId' = r.nextId
       /\ calls' = Append(calls,
              CallRecord("upsert", goal_id, <<>>, r.chunk_ids,
                         Len(r.kb) - Len(kb),
                         get_goal_knowledge_stats(kb, goal_id).total_chunks,
                         get_goal_knowledge_stats(r.kb, goal_id).total_chunks))
       /\ UNCHANGED <<env, ret, cls, syn, ses, stm, perf, tasks, db>>

DeleteKnowledge(goal_id) ==
    LET r == delete_goal_knowledge(kb, goal_id)
    IN /\ Len(calls) < MaxCalls
       /\ kb' = r.kb
       /\ calls' = Append(calls,
              CallRecord("delete", goal_id, <<>>, <<>>, 0,
                         get_goal_knowledge_stats(kb, goal_id).total_chunks,
                         get_goal_knowledge_stats(r.kb, goal_id).total_chunks))
       /\ UNCHANGED <<nextId, env, ret, cls, syn, ses, stm, perf, tasks, db>>

Idle == [phase |-> "idle"]

InitIndex ==
    /\ kb = <<>>
    /\ nextId = 1
    /\ calls = <<>>
    /\ env = Idle
    /\ ret = Idle
    /\ cls = Idle
    /\ syn = Idle
    /\ ses = Idle
    /\ stm = Idle
    /\ perf = Idle
    /\ tasks = Idle
    /\ db = Idle

NextIndex ==
    \/ \E g \in Goals, df \in Datasets : IngestDataset(g, df)
    \/ \E g \in Goals, b \in Batches : StoreBatch(g, b)
    \/ \E g \in Goals : DeleteKnowledge(g)

SpecIndex == InitIndex /\ [][NextIndex]_vars

(***************************************************************************)
(* Queries.  A query is the set of keywords its lower-cased text contains  *)
(* (as substrings) and its number of whitespace-separated words.           *)
(***************************************************************************)
\* Keywords that contain another keyword: "maximum" contains "max", ...
Implied(w) ==
    CASE w = "maximum" -> {"max"}
      [] w = "minimum" -> {"min"}
      [] w = "consumer" -> {"sum"}
      [] w = "over time" -> {"time"}
      [] OTHER -> {}

MkQuery(kw, words) ==
    [kw |-> kw \cup UNION {Implied(w) : w \in kw}, words |-> words]

Has(query, w) == w \in query.kw

business_synonyms ==
    [sales |-> <<"revenue", "income", "earnings">>,
     profit |-> <<"earnings", "margin", "return">>,
     customer |-> <<"client", "buyer", "consumer">>,
     product |-> <<"item", "merchandise", "offering">>,
     price |-> <<"cost", "rate", "amount">>,
     date |-> <<"time", "period", "when">>,
     increase |-> <<"growth", "rise", "improvement">>,
     decrease |-> <<"decline", "drop", "reduction">>]

SynonymKeys ==
    <<"sales", "profit", "customer", "product", "price", "date", "increase", "decrease">>

\* query_lower.replace(word, synonym)
Replace(query, word, synonym) ==
    MkQuery((query.kw \ {word}) \cup {synonym}, query.words)

RECURSIVE SynonymVariants(_, _)
SynonymVariants(query, keys) ==
    IF keys = <<>> THEN <<>>
    ELSE (IF Has(query, Head(keys))
          THEN [k \in 1..3 |-> Replace(query, Head(keys), business_synonyms[Head(keys)][k])]
          ELSE <<>>)
         \o SynonymVariants(query, Tail(keys))

FocusThreshold == 3

\* The first two and the last two words: the query itself when it has four
\* words, else a shorter text that keeps the keywords of those words.
Focused(query) ==
    IF query.words = 4 THEN query ELSE [kw |-> query.kw, words |-> 4]

RECURSIVE Dedupe(_)
Dedupe(s) ==
    IF s = <<>> THEN <<>>
    ELSE <<Head(s)>> \o Dedupe(SelectSeq(Tail(s), LAMBDA x : x # Head(s)))

\* RetrievalAgent._generate_query_variations: the original, the synonym
\* substitutions, the focused variant; duplicates removed.
generate_query_variations(query) ==
    Dedupe(<<query>>
           \o SynonymVariants(query, SynonymKeys)
           \o (IF query.words > FocusThreshold THEN <<Focused(query)>> ELSE <<>>))

(***************************************************************************)
(* Vector services a RetrievalAgent can be wired to.  A search returns     *)
(* dictionaries; Get is dict.get(key, default).                            *)
(***************************************************************************)
Get(d, key, default) == IF key \in DOMAIN d THEN d[key] ELSE default

EmptyDict == <<>>

Lower(w) ==
    CASE w = "Revenue" -> "revenue"
      [] w = "Region" -> "region"
      [] OTHER -> w

RECURSIVE SegmentWords(_)
SegmentWords(seg) ==
    IF seg = <<>> THEN {}
    ELSE (IF Head(seg).t = "str" THEN {Lower(Head(seg).s)} ELSE {}) \cup SegmentWords(Tail(seg))

RECURSIVE LineWords(_)
LineWords(line) ==
    IF line = <<>> THEN {} ELSE SegmentWords(Head(line)) \cup LineWords(Tail(line))

RECURSIVE TextWords(_)
TextWords(text) ==
    IF text = <<>> THEN {} ELSE LineWords(Head(text)) \cup TextWords(Tail(text))

\* The embedding capability, fixed: the cosine similarity (in hundredths) of a
\* query and a text grows with the keywords of the query the text shares.
Similarity(query, text) ==
    Min2(100, 30 + 30 * Cardinality(query.kw \cap TextWords(text)))

\* The documents by descending similarity, ties in insertion order.
RECURSIVE RankInsert(_, _)
RankInsert(x, s) ==
    IF s = <<>> THEN <<x>>
    ELSE IF x.similarity_score >= Head(s).similarity_score THEN <<x>> \o s
    ELSE <<Head(s)>> \o RankInsert(x, Tail(s))

RECURSIVE Ranked(_)
Ranked(s) ==
    IF s = <<>> THEN <<>> ELSE RankInsert(Head(s), Ranked(Tail(s)))

\* VectorEmbeddingService.search_knowledge_base
search_knowledge_base(docs, goal_id, query, top_k) ==
    LET goal_chunks == GoalChunks(docs, goal_id)
        scored == [i \in DOMAIN goal_chunks |->
                      [id |-> goal_chunks[i].id, text |-> goal_chunks[i].text,
                       type |-> goal_chunks[i].type,
                       metadata |-> goal_chunks[i].metadata,
                       similarity_score |-> Similarity(query, goal_chunks[i].text)]]
        top == Prefix(Ranked(scored), top_k)
    IN [i \in DOMAIN top |-> top[i] @@ [rank |-> i]]

\* MockVectorService.search_knowledge_base of the demonstration script.
MockResult(subject, figure, score, chunk_id, file) ==
    [content |-> << << <<Str(subject)>>, <<Str(figure), Str("more")>>, <<Str(figure)>> >> >>,
     metadata |-> [source |-> file],
     score |-> score,
     chunk_id |-> chunk_id,
     source |-> "Uploaded CSV"]

mock_search_knowledge_base(goal_id, query, top_k) ==
    IF Has(query, "sales") \/ Has(query, "revenue")
    THEN <<MockResult("Date", "Sales", 92, "chunk_001", "sales_data.csv"),
           MockResult("Date", "Sales", 89, "chunk_002", "sales_data.csv"),
           MockResult("Date", "Sales", 87, "chunk_003", "sales_data.csv")>>
    ELSE IF Has(query, "trends") \/ Has(query, "growth")
    THEN <<MockResult("Monthly Growth Rate", "Jan", 95, "chunk_004", "growth_metrics.csv"),
           MockResult("Year-over-Year Comparison", "2023", 88, "chunk_005",
                      "yearly_comparison.csv")>>
    ELSE <<MockResult("Product Performance", "Product A", 75, "chunk_006",
                      "product_data.csv")>>

\* A stub service with fixed embeddings: `hits` results for a query that names
\* revenue, `others` results for any other query, every one with the same
\* score and a pseudo-tabular content "Revenue: <n>".
RevenueIds == <<"rev_1", "rev_2", "rev_3", "rev_4">>

OtherIds == <<"oth_1", "oth_2", "oth_3", "oth_4">>

StubResult(k, chunk_id, score) ==
    [content |-> << << <<Str("Revenue")>>, <<Num(k)>> >> >>,
     metadata |-> [source |-> "stub"],
     score |-> score,
     chunk_id |-> chunk_id,
     source |-> "stub"]

stub_search_knowledge_base(service, query, top_k) ==
    LET all == IF Has(query, "revenue")
               THEN [k \in 1..service.hits |-> StubResult(k, RevenueIds[k], service.score)]
               ELSE [k \in 1..service.others |-> StubResult(k, OtherIds[k], service.score)]
    IN Prefix(all, top_k)

\* The search the agent's vector_service performs.
ServiceSearch(service, docs, goal_id, query, top_k) ==
    CASE service.kind = "embedding" -> search_knowledge_base(docs, goal_id, query, top_k)
      [] service.kind = "mock" -> mock_search_knowledge_base(goal_id, query, top_k)
      [] OTHER -> stub_search_knowledge_base(service, query, top_k)

(***************************************************************************)
(* RetrievalAgent: search quality and query expansion                      *)
(***************************************************************************)
max_chunks == 10

ExpansionTopK == 5

\* A quality is the fraction num/den of hundredths.
Frac(num, den) == [num |-> num, den |-> den]

FracLess(q, hundredths) == q.num < hundredths * q.den

FracAtLeast(q, hundredths) == q.num >= hundredths * q.den

FracIs(q, hundredths) == q.num = hundredths * q.den

RECURSIVE SumScores(_)
SumScores(results) ==
    IF results = <<>> THEN 0
    ELSE Get(Head(results), "score", 0) + SumScores(Tail(results))

\* mean score + min(n / max_chunks, 1) * 0.2, at most 1.
calculate_search_quality(results) ==
    IF results = <<>> THEN Frac(0, 1)
    ELSE LET n == Len(results)
             den == n * max_chunks
             num == SumScores(results) * max_chunks + 20 * n * Min2(n, max_chunks)
         IN Frac(Min2(num, 100 * den), den)

LowQualityWrongThreshold(quality) == FracLess(quality, 80)

\* search_quality < 0.5
LowQuality(quality) == FracLess(quality, 50)

\* all_results.sort(key=score, reverse=True): stable.
RECURSIVE ScoreInsert(_, _)
ScoreInsert(x, s) ==
    IF s = <<>> THEN <<x>>
    ELSE IF Get(x, "score", 0) >= Get(Head(s), "score", 0) THEN <<x>> \o s
    ELSE <<Head(s)>> \o ScoreInsert(x, Tail(s))

RECURSIVE SortByScore(_)
SortByScore(s) ==
    IF s = <<>> THEN <<>> ELSE ScoreInsert(Head(s), SortByScore(Tail(s)))

\* The inner loop of _expand_and_search: keep the results whose chunk id was
\* not seen yet.
MergeEveryResult(results, seen_chunks, all_results) ==
    [seen |-> seen_chunks, all |-> all_results \o results]

RECURSIVE MergeUnseen(_, _, _)
MergeUnseen(results, seen_chunks, all_results) ==
    IF results = <<>> THEN [seen |-> seen_chunks, all |-> all_results]
    ELSE LET chunk_id == Get(Head(results), "chunk_id", "")
         IN IF chunk_id \in seen_chunks
            THEN MergeUnseen(Tail(results), seen_chunks, all_results)
            ELSE MergeUnseen(Tail(results), seen_chunks \cup {chunk_id},
                             Append(all_results, Head(results)))

\* The outer loop: variant k fails when k is in `failing`.
RECURSIVE ExpandLoop(_, _, _, _, _, _, _, _)
ExpandLoop(service, docs, goal_id, variants, k, failing, seen_chunks, all_results) ==
    IF k > Len(variants) THEN all_results
    ELSE IF k \in failing
    THEN ExpandLoop(service, docs, goal_id, variants, k + 1, failing, seen_chunks, all_results)
    ELSE LET m == MergeUnseen(ServiceSearch(service, docs, goal_id, variants[k], ExpansionTopK),
                              seen_chunks, all_results)
         IN ExpandLoop(service, docs, goal_id, variants, k + 1, failing, m.seen, m.all)

expand_and_search(service, docs, goal_id, query, failing) ==
    Prefix(SortByScore(ExpandLoop(service, docs, goal_id,
                                  generate_query_variations(query), 1, failing, {}, <<>>)),
           max_chunks)

(***************************************************************************)
(* RetrievalAgent: structured evidence from the uploaded CSV files         *)
(***************************************************************************)
HeadRows == 5

MaxInsights == 10

CellsMean(cells) ==
    IF NonNaN(cells) = <<>> THEN NaN
    ELSE Num(RoundDiv(100 * SumCells(NonNaN(cells)), Len(NonNaN(cells))))

\* "<col> Analysis" and, with enough rows, "<col> Trend" of the Revenue
\* column, the only column of the model a revenue keyword matches.
RevenueInsights(df) ==
    LET cells == ColumnCells(df, "Revenue")
        xs == SortCells(NonNaN(cells))
        n == Len(df)
        first_quarter == CellsMean(SubSeq(cells, 1, n \div 4))
        last_quarter == CellsMean(SubSeq(cells, n - ((n + 3) \div 4) + 1, n))
    IN IF Dtype(df, "Revenue") \in {"int64", "float64"} /\ xs # <<>>
       THEN << <<Str("Revenue Analysis"), Num(SumSeq(xs)), CellsMean(cells),
                 Num(xs[1]), Num(xs[Len(xs)])>> >>
            \o (IF n >= 3 /\ first_quarter.t = "num" /\ first_quarter.n > 0
                THEN << <<Str("Revenue Trend"), first_quarter, last_quarter>> >>
                ELSE <<>>)
       ELSE <<>>

\* RetrievalAgent._analyze_csv_data
analyze_csv_data(df, query, file_name) ==
    [overview |-> << << <<Str("Business data from"), Str(file_name)>>,
                        <<Num(Len(df)), Str("records with"), Num(Len(Columns)),
                          Str("attributes including")>> \o ColumnTokens(Columns) >> >>,
     insights |-> Prefix(RevenueInsights(df), MaxInsights)]

CsvItem(upload, query) ==
    LET summary == analyze_csv_data(upload.df, query, upload.file_name)
    IN [content |-> summary.overview,
        metadata |-> [file_name |-> upload.file_name, upload_id |-> upload.id,
                      rows |-> Len(upload.df), columns |-> Columns],
        similarity_score |-> 90,
        chunk_id |-> upload.id,
        source |-> "uploaded_csv",
        type |-> "csv_data",
        data_insights |-> summary.insights,
        raw_data_sample |-> Prefix(upload.df, HeadRows)]

\* RetrievalAgent._get_uploaded_csv_data: one item for every Complete upload
\* of the goal whose file is there and parses; any failure skips the upload.
RECURSIVE get_uploaded_csv_data(_, _, _)
get_uploaded_csv_data(uploads, goal_id, query) ==
    IF uploads = <<>> THEN <<>>
    ELSE (IF /\ Head(uploads).goal_id = goal_id
             /\ Head(uploads).status = "Complete"
             /\ Head(uploads).readable
          THEN <<CsvItem(Head(uploads), query)>>
          ELSE <<>>)
         \o get_uploaded_csv_data(Tail(uploads), goal_id, query)

(***************************************************************************)
(* RetrievalAgent._perform_vector_search                                   *)
(***************************************************************************)
FormatResult(result) ==
    [content |-> Get(result, "content", EmptyStr),
     metadata |-> Get(result, "metadata", EmptyDict),
     similarity_score |-> Get(result, "score", 0),
     chunk_id |-> Get(result, "chunk_id", ""),
     source |-> Get(result, "source", "vector_db"),
     type |-> "vector_search"]

TotalChunksPlaceholder == 100

RetrievalResult(data, operation, quality, total_chunks) ==
    [data |-> data, operation |-> operation, search_quality |-> quality,
     total_chunks |-> total_chunks, retrieved_chunks |-> Len(data)]

\* Steps 1 and 2: the first search, its quality, the expansion.  `fail.first`
\* makes the first search raise, `fail.variants` the variant searches.
VectorPath(e, docs, goal_id, query, fail) ==
    IF fail.first
    THEN [results |-> <<>>, quality |-> Frac(0, 1), searched |-> FALSE,
          first_quality |-> Frac(0, 1), variant_searches |-> 0, replaced |-> FALSE]
    ELSE LET Kept(results, first_quality, expand, expanded_results, replace) ==
                 [results |-> IF replace THEN expanded_results ELSE results,
                  quality |-> IF replace THEN calculate_search_quality(expanded_results)
                              ELSE first_quality,
                  searched |-> TRUE,
                  first_quality |-> first_quality,
                  variant_searches |-> IF expand
                                       THEN Len(generate_query_variations(query))
                                       ELSE 0,
                  replaced |-> replace]
             Expanded(results, first_quality, expand, expanded_results) ==
                 Kept(results, first_quality, expand, expanded_results,
                      expand /\ expanded_results # <<>>
                      /\ Len(expanded_results) > Len(results))
             Expand(results, first_quality, expand) ==
                 Expanded(results, first_quality, expand,
                          IF expand
                          THEN expand_and_search(e.service, docs, goal_id, query,
                                                 fail.variants)
                          ELSE <<>>)
             First(results, first_quality) ==
                 Expand(results, first_quality,
                        LowQuality(first_quality) /\ e.query_expansion)
             Searched(results) == First(results, calculate_search_quality(results))
         IN Searched(ServiceSearch(e.service, docs, goal_id, query, max_chunks))

BoostOnlyWithoutVectorResults(quality, csv_data, formatted_data) ==
    IF csv_data # <<>> /\ formatted_data = <<>> /\ FracLess(quality, 80)
    THEN Frac(80, 1) ELSE quality

\* if csv_data: search_quality = max(search_quality, 0.8)
BoostQuality(quality, csv_data, formatted_data) ==
    IF csv_data # <<>> /\ FracLess(quality, 80) THEN Frac(80, 1) ELSE quality

\* The whole of _perform_vector_search: vector path, then the CSV data, which
\* lifts the quality to 0.8 when there is any.
perform_vector_search(e, docs, goal_id, query, fail) ==
    LET Hybrid(v, formatted_data, csv_data) ==
            [result |-> RetrievalResult(formatted_data \o csv_data, "hybrid_vector_csv",
                                        BoostQuality(v.quality, csv_data, formatted_data),
                                        TotalChunksPlaceholder),
             trace |-> [searched |-> v.searched, first_quality |-> v.first_quality,
                        variant_searches |-> v.variant_searches, replaced |-> v.replaced,
                        vector_quality |-> v.quality]]
        Formatted(v) ==
            Hybrid(v, [i \in DOMAIN v.results |-> FormatResult(v.results[i])],
                   get_uploaded_csv_data(e.uploads, goal_id, query))
    IN Formatted(VectorPath(e, docs, goal_id, query, fail))

(***************************************************************************)
(* RetrievalAgent._aggregate_data and what it calls                        *)
(***************************************************************************)
TextValue == [t |-> "text", n |-> 0, s |-> ""]

\* current_row[key] = value: a dict keeps the position of a key it has.
RECURSIVE SetKey(_, _, _)
SetKey(row, key, value) ==
    IF row = <<>> THEN << <<key, value>> >>
    ELSE IF Head(row)[1] = key THEN << <<key, value>> >> \o Tail(row)
    ELSE <<Head(row)>> \o SetKey(Tail(row), key, value)

\* line.split(':', 1): the key, and the value as a number when the rest is
\* digits (with at most a decimal point), else as text.
LineValue(line) ==
    IF Len(line) = 2 /\ Len(line[2]) = 1 /\ line[2][1].t = "num"
    THEN line[2][1] ELSE TextValue

RECURSIVE ParseLines(_, _, _)
ParseLines(lines, current_row, data_rows) ==
    IF lines = <<>>
    THEN (IF current_row # <<>> THEN Append(data_rows, current_row) ELSE data_rows)
    ELSE LET line == Head(lines)
         IN IF line = <<>>
            THEN ParseLines(Tail(lines), <<>>,
                            IF current_row # <<>> THEN Append(data_rows, current_row)
                            ELSE data_rows)
            ELSE IF Len(line) >= 2
            THEN ParseLines(Tail(lines), SetKey(current_row, line[1], LineValue(line)),
                            data_rows)
            ELSE ParseLines(Tail(lines), current_row, data_rows)

parse_structured_data(content) == ParseLines(content, <<>>, <<>>)

RECURSIVE ParseAll(_)
ParseAll(items) ==
    IF items = <<>> THEN <<>>
    ELSE parse_structured_data(Get(Head(items), "content", EmptyStr)) \o ParseAll(Tail(items))

\* pd.DataFrame(list of dicts): the keys in order of first appearance.
RECURSIVE RowKeys(_, _)
RowKeys(row, keys) ==
    IF row = <<>> THEN keys
    ELSE RowKeys(Tail(row),
                 IF \E i \in DOMAIN keys : keys[i] = Head(row)[1] THEN keys
                 ELSE Append(keys, Head(row)[1]))

RECURSIVE FrameKeys(_, _)
FrameKeys(rows, keys) ==
    IF rows = <<>> THEN keys ELSE FrameKeys(Tail(rows), RowKeys(Head(rows), keys))

\* The values a column holds, a missing key being NaN.
RECURSIVE FrameColumn(_, _)
FrameColumn(rows, key) ==
    IF rows = <<>> THEN <<>>
    ELSE LET hit == SelectSeq(Head(rows), LAMBDA kv : kv[1] = key)
         IN <<IF hit = <<>> THEN NaN ELSE hit[1][2]>> \o FrameColumn(Tail(rows), key)

FrameNumericCols(rows) ==
    SelectSeq(FrameKeys(rows, <<>>),
              LAMBDA key : \A i \in DOMAIN rows :
                               FrameColumn(rows, key)[i].t \in {"num", "nan"})

AggItem(label, key, num, den, type) ==
    [metric |-> <<label, key>>, value |-> Frac(num, den), type |-> type]

PerColumn(rows, cols, Item(_)) ==
    [i \in DOMAIN cols |-> Item(cols[i])]

SumItem(rows, key) ==
    AggItem("Total", key, SumCells(NonNaN(FrameColumn(rows, key))), 1, "sum")

AverageItem(rows, key) ==
    AggItem("Average", key, SumCells(NonNaN(FrameColumn(rows, key))),
            Len(NonNaN(FrameColumn(rows, key))), "average")

MaxItem(rows, key) ==
    LET xs == SortCells(NonNaN(FrameColumn(rows, key)))
    IN AggItem("Maximum", key, xs[Len(xs)], 1, "maximum")

MinItem(rows, key) ==
    AggItem("Minimum", key, SortCells(NonNaN(FrameColumn(rows, key)))[1], 1, "minimum")

CountItem(rows, key) ==
    AggItem("Count", key, Len(NonNaN(FrameColumn(rows, key))), 1, "count")

NoColumn == <<>>

RECURSIVE SummaryItems(_, _)
SummaryItems(rows, cols) ==
    IF cols = <<>> THEN <<>>
    ELSE <<AverageItem(rows, Head(cols)), SumItem(rows, Head(cols)),
           CountItem(rows, Head(cols))>>
         \o SummaryItems(rows, Tail(cols))

\* RetrievalAgent._perform_aggregations
perform_aggregations(rows, query) ==
    LET Requested(numeric_cols) ==
            (IF Has(query, "sum") \/ Has(query, "total")
             THEN PerColumn(rows, numeric_cols, LAMBDA c : SumItem(rows, c)) ELSE <<>>)
            \o (IF Has(query, "average") \/ Has(query, "mean")
                THEN PerColumn(rows, numeric_cols, LAMBDA c : AverageItem(rows, c))
                ELSE <<>>)
            \o (IF Has(query, "count")
                THEN <<AggItem("Total Records", NoColumn, Len(rows), 1, "count")>>
                ELSE <<>>)
            \o (IF Has(query, "max") \/ Has(query, "maximum")
                THEN PerColumn(rows, numeric_cols, LAMBDA c : MaxItem(rows, c)) ELSE <<>>)
            \o (IF Has(query, "min") \/ Has(query, "minimum")
                THEN PerColumn(rows, numeric_cols, LAMBDA c : MinItem(rows, c)) ELSE <<>>)
        Results(numeric_cols, results) ==
            IF results # <<>> THEN results ELSE SummaryItems(rows, numeric_cols)
        WithColumns(numeric_cols) == Results(numeric_cols, Requested(numeric_cols))
    IN WithColumns(FrameNumericCols(rows))

CsvItems(data) ==
    SelectSeq(data, LAMBDA item : Get(item, "type", "") = "csv_data")

AggregateOnlyCsvItems(search_results, query) ==
    IF search_results.data = <<>> THEN search_results
    ELSE IF CsvItems(search_results.data) # <<>>
    THEN RetrievalResult(CsvItems(search_results.data), "aggregation",
                         search_results.search_quality, search_results.total_chunks)
    ELSE search_results

\* RetrievalAgent._aggregate_data behind its first line, the hybrid retrieval
\* that produced search_results.
AggregateFrom(search_results, query) ==
    IF search_results.data = <<>> THEN search_results
    ELSE IF CsvItems(search_results.data) # <<>> THEN search_results
    ELSE LET df_data == ParseAll(search_results.data)
         IN IF df_data = <<>> THEN search_results
            ELSE RetrievalResult(perform_aggregations(df_data, query), "aggregation",
                                 search_results.search_quality,
                                 search_results.total_chunks)

aggregate_data(e, docs, goal_id, query, fail) ==
    LET Aggregated(s) ==
            [result |-> AggregateFrom(s.result, query), trace |-> s.trace,
             hybrid |-> s.result]
    IN Aggregated(perform_vector_search(e, docs, goal_id, query, fail))

(***************************************************************************)
(* RetrievalAgent.process under BaseAgent.execute                          *)
(***************************************************************************)
RetrievalActions == {"vector_search", "aggregate_data", "synthesize_response"}

RetrieveAbortingOnFailure(e, docs, goal_id, query, action, fail) ==
    IF e.service.kind = "unset" \/ fail.first
    THEN [success |-> FALSE, error |-> "Error in RetrievalAgent: Vector search failed",
          result |-> Idle, trace |-> Idle, hybrid |-> Idle]
    ELSE LET Searched(s) ==
                 [success |-> TRUE, error |-> "", result |-> s.result, trace |-> s.trace,
                  hybrid |-> s.result]
         IN Searched(perform_vector_search(e, docs, goal_id, query, fail))

retrieve(e, docs, goal_id, query, action, fail) ==
    IF e.service.kind = "unset"
    THEN [success |-> FALSE, error |-> "Error in RetrievalAgent: Vector service not initialized",
          result |-> Idle, trace |-> Idle, hybrid |-> Idle]
    ELSE LET Returned(r) ==
                 [success |-> TRUE, error |-> "", result |-> r.result, trace |-> r.trace,
                  hybrid |-> r.hybrid]
             Searched(s) == [result |-> s.result, trace |-> s.trace, hybrid |-> s.result]
         IN IF action = "aggregate_data"
            THEN Returned(aggregate_data(e, docs, goal_id, query, fail))
            ELSE Returned(Searched(perform_vector_search(e, docs, goal_id, query, fail)))

(***************************************************************************)
(* Retrieval: what an agent can be wired to, and one call of it            *)
(***************************************************************************)
Service(kind, score, hits, others) ==
    [kind |-> kind, score |-> score, hits |-> hits, others |-> others]

StubScores == {0, 47, 48, 90}

Services ==
    {Service("unset", 0, 0, 0), Service("embedding", 0, 0, 0), Service("mock", 0, 0, 0)}
    \cup {Service("stub", s, h, o) : s \in StubScores, h \in 0..MaxStubHits,
                                     o \in 0..MaxStubHits}

Upload(id, goal_id, status, readable) ==
    [id |-> id, goal_id |-> goal_id, status |-> status, readable |-> readable,
     df |-> <<FullRow, BlankRow>>, file_name |-> "sales.csv"]

UploadPool ==
    {Upload("csv_u1", "g1", "Complete", TRUE), Upload("csv_u2", "g1", "Pending", TRUE),
     Upload("csv_u3", "g1", "Complete", FALSE), Upload("csv_u4", "g2", "Complete", TRUE)}

Envs ==
    [service : Services, uploads : SeqsUpTo(UploadPool, MaxUploads),
     query_expansion : BOOLEAN]

\* A table of ten rows whose Revenue column holds 1..10.
TenRowTable == [i \in 1..10 |-> [Revenue |-> Num(i), Region |-> Str("east")]]

IndexOf(df) == store_knowledge_base(<<>>, 1, "g1", chunk_csv_data(df, "g1")).kb

KbPool == {<<>>, IndexOf(<<FullRow, BlankRow>>), IndexOf(TenRowTable)}

KbFor(service) == IF service.kind = "embedding" THEN KbPool ELSE {<<>>}

TotalRevenueQuery == MkQuery({"total", "revenue"}, 2)

QueryPool ==
    {TotalRevenueQuery, MkQuery({"sales"}, 5), MkQuery({}, 1),
     MkQuery({"average", "count"}, 4)}

NoFailure == [first |-> FALSE, variants |-> {}]

FailOptions ==
    {NoFailure, [first |-> TRUE, variants |-> {}], [first |-> FALSE, variants |-> {1}],
     [first |-> FALSE, variants |-> 1..5]}

\* BaseAgent.execute(query, context) of a RetrievalAgent, once.
RetrievalProcess(goal_id, query, action, fail) ==
    /\ ret = Idle
    /\ ret' = [phase |-> "done", goal_id |-> goal_id, query |-> query,
               action |-> action, fail |-> fail,
               out |-> retrieve(env, kb, goal_id, query, action, fail)]
    /\ UNCHANGED <<kb, nextId, calls, env, cls, syn, ses, stm, perf, tasks, db>>

InitRetrieve ==
    /\ env \in Envs
    /\ kb \in KbFor(env.service)
    /\ nextId = Len(kb) + 1
    /\ calls = <<>>
    /\ ret = Idle
    /\ cls = Idle
    /\ syn = Idle
    /\ ses = Idle
    /\ stm = Idle
    /\ perf = Idle
    /\ tasks = Idle
    /\ db = Idle

NextRetrieve ==
    \E g \in Goals, q \in QueryPool, a \in RetrievalActions, f \in FailOptions :
        RetrievalProcess(g, q, a, f)

SpecRetrieve == InitRetrieve /\ [][NextRetrieve]_vars

(***************************************************************************)
(* Partitions: ingestions and deletions over several goals, and then one   *)
(* search of the index or one retrieval of the agent                       *)
(***************************************************************************)
PartitionUploads ==
    {<<>>, <<Upload("csv_u4", "g2", "Complete", TRUE), Upload("csv_u1", "g1", "Complete", TRUE)>>}

PartitionQueries == {TotalRevenueQuery, MkQuery({}, 1)}

PartitionDatasets == {<<FullRow>>, <<FullRow, BlankRow>>}

PartitionBatches == {<<PoolChunk("alpha")>>, <<PoolChunk("alpha"), PoolChunk("beta")>>}

\* The index before the calls: empty, or after one ingestion for goal g2.
PartitionKbs ==
    {<<>>, store_knowledge_base(<<>>, 1, "g2", chunk_csv_data(<<FullRow>>, "g2")).kb}

\* VectorEmbeddingService.search_knowledge_base(goal_id, query, top_k), once.
SearchKnowledge(goal_id, query, top_k) ==
    /\ ret = Idle
    /\ ret' = [phase |-> "done", op |-> "search", goal_id |-> goal_id, query |-> query,
               out |-> search_knowledge_base(kb, goal_id, query, top_k)]
    /\ UNCHANGED <<kb, nextId, calls, env, cls, syn, ses, stm, perf, tasks, db>>

\* BaseAgent.execute(query, context) of the RetrievalAgent, once.
RetrieveEvidence(goal_id, query, action) ==
    /\ ret = Idle
    /\ \E r \in {retrieve(env, kb, goal_id, query, action, NoFailure)} :
          ret' = [phase |-> "done", op |-> "retrieve", goal_id |-> goal_id,
                  query |-> query, out |-> r.result.data]
    /\ UNCHANGED <<kb, nextId, calls, env, cls, syn, ses, stm, perf, tasks, db>>

InitPartitions ==
    /\ env \in [service : {Service("embedding", 0, 0, 0)}, uploads : PartitionUploads,
                query_expansion : {TRUE}]
    /\ kb \in PartitionKbs
    /\ nextId = Len(kb) + 1
    /\ calls = <<>>
    /\ ret = Idle
    /\ cls = Idle
    /\ syn = Idle
    /\ ses = Idle
    /\ stm = Idle
    /\ perf = Idle
    /\ tasks = Idle
    /\ db = Idle

NextPartitions ==
    \/ \E g \in Goals, df \in PartitionDatasets : ret = Idle /\ IngestDataset(g, df)
    \/ \E g \in Goals, b \in PartitionBatches : ret = Idle /\ StoreBatch(g, b)
    \/ \E g \in Goals : ret = Idle /\ DeleteKnowledge(g)
    \/ \E g \in Goals, q \in PartitionQueries, k \in {1, max_chunks} : SearchKnowledge(g, q, k)
    \/ \E g \in Goals, q \in PartitionQueries, a \in {"vector_search", "aggregate_data"} :
           RetrieveEvidence(g, q, a)

SpecPartitions == InitPartitions /\ [][NextPartitions]_vars

(***************************************************************************)
(* RouterAgent: classification, strategy, execution plan                   *)
(***************************************************************************)
QueryTypes ==
    {"simple_data_lookup", "aggregation_analysis", "trend_analysis", "comparison_query",
     "multi_step_complex", "planning_request", "general_question"}

QueryClassification(query_type, confidence, complexity_score, estimated_steps) ==
    [query_type |-> query_type, confidence |-> confidence,
     complexity_score |-> complexity_score, estimated_steps |-> estimated_steps]

AnyOf(query, words) == \E w \in words : Has(query, w)

FallbackWithoutAggregation(query) ==
    IF AnyOf(query, {"what is", "show me", "find"})
    THEN QueryClassification("simple_data_lookup", 60, 2, 1)
    ELSE IF AnyOf(query, {"trend", "over time", "growth", "change"})
    THEN QueryClassification("trend_analysis", 60, 6, 1)
    ELSE IF AnyOf(query, {"compare", "vs", "versus", "difference"})
    THEN QueryClassification("comparison_query", 60, 5, 1)
    ELSE QueryClassification("general_question", 60, 3, 1)

\* RouterAgent._fallback_classification: the first keyword group the
\* lower-cased query contains a member of decides.
fallback_classification(query) ==
    IF AnyOf(query, {"what is", "show me", "find"})
    THEN QueryClassification("simple_data_lookup", 60, 2, 1)
    ELSE IF AnyOf(query, {"average", "sum", "total", "count"})
    THEN QueryClassification("aggregation_analysis", 60, 4, 1)
    ELSE IF AnyOf(query, {"trend", "over time", "growth", "change"})
    THEN QueryClassification("trend_analysis", 60, 6, 1)
    ELSE IF AnyOf(query, {"compare", "vs", "versus", "difference"})
    THEN QueryClassification("comparison_query", 60, 5, 1)
    ELSE QueryClassification("general_question", 60, 3, 1)

\* What the completion call of _classify_query comes back with: it raises, or
\* it answers with a JSON object whose query_type may be no QueryType.
LlmReply(raises, query_type, confidence, complexity_score) ==
    [raises |-> raises, query_type |-> query_type, confidence |-> confidence,
     complexity_score |-> complexity_score]

LlmFailure == LlmReply(TRUE, "", 0, 0)

LlmReplies ==
    {LlmFailure}
    \cup {LlmReply(FALSE, t, 90, k) : t \in QueryTypes \cup {"unknown"}, k \in {1, 4, 7, 8}}

\* A completion that returns, with output that json.loads or the model class
\* rejects: no JSON, a JSON object that lacks a field, a confidence that is no
\* number.
LlmFaulty(fault, query_type) ==
    [raises |-> FALSE, query_type |-> query_type, confidence |-> 90,
     complexity_score |-> 4, fault |-> fault]

UsesFallbackWhenRaised(llm) == llm.raises

\* The except clause of _classify_query: whatever the try block raises.
UsesFallback(llm) ==
    llm.raises \/ "fault" \in DOMAIN llm \/ llm.query_type \notin QueryTypes

\* RouterAgent._classify_query
classify_query(query, llm) ==
    IF UsesFallback(llm) THEN fallback_classification(query)
    ELSE QueryClassification(llm.query_type, llm.confidence, llm.complexity_score, 2)

\* RouterAgent._determine_strategy
determine_strategy(classification) ==
    CASE classification.query_type = "simple_data_lookup" -> "direct_retrieval"
      [] classification.query_type = "aggregation_analysis" -> "retrieve_and_aggregate"
      [] classification.query_type = "multi_step_complex" -> "sequential_processing"
      [] OTHER -> "standard_processing"

\* A step of a plan; `input` is the query itself in the first step and the
\* name of what the step reads in the others.
PlanStep(step, agent, action, description, input) ==
    [step |-> step, agent |-> agent, action |-> action, description |-> description,
     input |-> input]

\* RouterAgent._create_execution_plan
CreatePlanReadingQuery(strategy, query) ==
    <<PlanStep(1, "RetrievalAgent", "vector_search", "Search for relevant information",
               query),
      PlanStep(2, "SynthesizerAgent", "synthesize_response",
               "Generate comprehensive response", query)>>

create_execution_plan(strategy, query) ==
    IF strategy = "direct_retrieval"
    THEN <<PlanStep(1, "RetrievalAgent", "vector_search", "Search for relevant data",
                    query),
           PlanStep(2, "SynthesizerAgent", "synthesize_response",
                    "Format and present results", "retrieval_results")>>
    ELSE IF strategy = "retrieve_and_aggregate"
    THEN <<PlanStep(1, "RetrievalAgent", "vector_search",
                    "Retrieve relevant data for aggregation", query),
           PlanStep(2, "RetrievalAgent", "aggregate_data",
                    "Perform requested calculations", "raw_data"),
           PlanStep(3, "SynthesizerAgent", "synthesize_response",
                    "Present aggregated results with insights", "aggregated_data")>>
    ELSE <<PlanStep(1, "RetrievalAgent", "vector_search",
                    "Search for relevant information", query),
           PlanStep(2, "SynthesizerAgent", "synthesize_response",
                    "Generate comprehensive response", "search_results")>>

\* A Python value that compares by type and value: a member of the QueryType
\* enumeration is not equal to the str that is its value.
EnumMember(v) == [py |-> "QueryType", value |-> v]

PyStr(v) == [py |-> "str", value |-> v]

\* classification.dict(): the fields as they are, query_type still a member
\* of the enumeration.
classification_dict(classification) ==
    [classification EXCEPT !.query_type = EnumMember(@)]

\* RouterAgent.process: the response of a successful routing.
router_process(query, llm) ==
    LET classification == classify_query(query, llm)
        strategy == determine_strategy(classification)
    IN [classification |-> classification_dict(classification), strategy |-> strategy,
        execution_plan |-> create_execution_plan(strategy, query),
        estimated_complexity |-> classification.complexity_score]

\* A query that is not text: it can be sliced and formatted, but it has no
\* lower(), so the keyword fallback raises on it.
NotText == [kw |-> {}, words |-> 1, py |-> "list"]

IsStr(query) == "py" \notin DOMAIN query

\* BaseAgent.execute of the RouterAgent: what process raises comes back as a
\* response with success False and the error text.
router_execute(query, llm) ==
    IF UsesFallback(llm) /\ ~IsStr(query)
    THEN [success |-> FALSE,
          error |-> "Error in RouterAgent: 'list' object has no attribute 'lower'",
          response |-> Idle]
    ELSE [success |-> TRUE, error |-> "", response |-> router_process(query, llm)]

\* The keywords of the fallback, and two words it has no rule for.
RouterWords ==
    {"what is", "show me", "find", "average", "sum", "total", "count", "trend",
     "over time", "growth", "change", "compare", "vs", "versus", "difference",
     "plan", "then"}

RECURSIVE KSubsets(_, _)
KSubsets(S, k) ==
    IF k = 0 THEN {{}}
    ELSE LET P == KSubsets(S, k - 1)
         IN P \cup {p \cup {x} : p \in P, x \in S}

RouterQueries == {MkQuery(S, 3) : S \in KSubsets(RouterWords, MaxKeywords)}

\* BaseAgent.execute(query, context) of a RouterAgent, once.
RouterProcess(query, llm) ==
    /\ cls = Idle
    /\ cls' = [phase |-> "done", query |-> query, fallback |-> UsesFallback(llm),
               out |-> router_process(query, llm)]
    /\ UNCHANGED <<kb, nextId, calls, env, ret, syn, ses, stm, perf, tasks, db>>

InitRouter ==
    /\ kb = <<>>
    /\ nextId = 1
    /\ calls = <<>>
    /\ env = Idle
    /\ ret = Idle
    /\ cls = Idle
    /\ syn = Idle
    /\ ses = Idle
    /\ stm = Idle
    /\ perf = Idle
    /\ tasks = Idle
    /\ db = Idle

NextRouter == \E q \in RouterQueries, llm \in LlmReplies : RouterProcess(q, llm)

SpecRouter == InitRouter /\ [][NextRouter]_vars

(***************************************************************************)
(* One routing, with whatever the completion may return.  The query is     *)
(* text, as the request model of the endpoint and the signature have it    *)
(***************************************************************************)
ClassifyQueries ==
    {MkQuery({w}, 3) : w \in {"what is", "total", "trend", "compare", "plan"}}
    \cup {MkQuery({}, 1), MkQuery({"find", "sum"}, 4)}

Confidences == {0, 90, 100, 150}

ComplexityScores == {0, 1, 10, 11}

ClassifyReplies ==
    {LlmFailure}
    \cup {LlmFaulty(f, t) : f \in {"not_json", "missing_field", "confidence_not_a_number"},
                           t \in {"trend_analysis", "unknown"}}
    \cup {LlmReply(FALSE, t, c, k) : t \in {"simple_data_lookup", "planning_request", "unknown"},
                                    c \in Confidences, k \in ComplexityScores}

\* BaseAgent.execute(query, context) of a RouterAgent, once; the reply of the
\* completion is kept beside the response.
Classify(query, llm) ==
    /\ cls = Idle
    /\ cls' = [phase |-> "done", query |-> query, llm |-> llm,
               routing |-> router_execute(query, llm)]
    /\ UNCHANGED <<kb, nextId, calls, env, ret, syn, ses, stm, perf, tasks, db>>

NextClassify == \E q \in ClassifyQueries, llm \in ClassifyReplies : Classify(q, llm)

SpecClassify == InitRouter /\ [][NextClassify]_vars

(***************************************************************************)
(* Two routings of one RouterAgent, one after the other                    *)
(***************************************************************************)
PlanQueries ==
    {MkQuery({w}, 3) : w \in {"what is", "show me", "total", "sum", "plan"}}
    \cup {MkQuery({}, 3)}

PlanReplies ==
    {LlmFailure, LlmReply(FALSE, "simple_data_lookup", 90, 1),
     LlmReply(FALSE, "aggregation_analysis", 90, 4),
     LlmReply(FALSE, "trend_analysis", 90, 1), LlmReply(FALSE, "multi_step_complex", 90, 8)}

\* BaseAgent.execute(query, context) of the RouterAgent a second time; the
\* first routing is kept beside the second.
RouterProcessAgain(query, llm) ==
    /\ cls # Idle
    /\ cls.phase = "done"
    /\ cls' = [phase |-> "again", query |-> query, fallback |-> UsesFallback(llm),
               out |-> router_process(query, llm), first |-> cls]
    /\ UNCHANGED <<kb, nextId, calls, env, ret, syn, ses, stm, perf, tasks, db>>

NextPlans ==
    \/ \E q \in PlanQueries, llm \in PlanReplies : RouterProcess(q, llm)
    \/ \E q \in PlanQueries, llm \in PlanReplies : RouterProcessAgain(q, llm)

SpecPlans == InitRouter /\ [][NextPlans]_vars

(***************************************************************************)
(* SynthesizerAgent.  An evidence item is a dictionary; the field          *)
(* `mistyped` of the model names the keys whose value has another type     *)
(* than the retriever gives it: a content that is an int, a                *)
(* similarity_score that is a str, a metadata that is a str, a             *)
(* data_insights that is an int.                                           *)
(***************************************************************************)
Wrong(item, key) == key \in Get(item, "mistyped", {})

IsCsv(item) == Get(item, "type", "") = "csv_data"

\* len(item.get("content", "")) and len(item.get("data_insights", [])) of the
\* logging probes raise TypeError on an int.
ProbeRaises(item) == Wrong(item, "content") \/ Wrong(item, "data_insights")

AnyRaises(data, idx, Raises(_)) == \E i \in idx : Raises(data[i])

FirstN(data, n) == 1..Min2(n, Len(data))

LastN(data, n) == (Max2(0, Len(data) - n) + 1)..Len(data)

HasScore(item) == "similarity_score" \in DOMAIN item

ScoredItems(data) == SelectSeq(data, HasScore)

RECURSIVE SumSimilarity(_)
SumSimilarity(data) ==
    IF data = <<>> THEN 0
    ELSE Get(Head(data), "similarity_score", 0) + SumSimilarity(Tail(data))

MetricNames(data) ==
    {data[i].metric : i \in {j \in DOMAIN data : {"metric", "value"} \subseteq DOMAIN data[j]}}

\* SynthesizerAgent._analyze_retrieved_data: any exception ends in the
\* dictionary that carries the error.
analyze_retrieved_data(data) ==
    LET failed == \/ AnyRaises(data, FirstN(data, 5) \cup LastN(data, 3), ProbeRaises)
                  \/ AnyRaises(data, DOMAIN data, LAMBDA x : Wrong(x, "data_insights"))
                  \/ AnyRaises(data, DOMAIN data,
                               LAMBDA x : HasScore(x) /\ Wrong(x, "similarity_score"))
    IN IF failed
       THEN [total_items |-> Len(data), error |-> TRUE, metrics_summary |-> {},
             quality_score |-> Frac(0, 1)]
       ELSE [total_items |-> Len(data), error |-> FALSE,
             metrics_summary |-> MetricNames(data),
             quality_score |-> IF ScoredItems(data) = <<>> THEN Frac(0, 1)
                               ELSE Frac(SumSimilarity(ScoredItems(data)),
                                         Len(ScoredItems(data)))]

\* An answer is kept as what the later steps read of it: its length, whether
\* it holds a digit, and for the template the items it lists.
Answer(kind, len, has_digit, listed, more) ==
    [kind |-> kind, len |-> len, has_digit |-> has_digit, listed |-> listed,
     more |-> more]

TemplateItems == 3

\* SynthesizerAgent._create_simple_response: content[:200] raises on an int,
\* the :.2f format on a str.
create_simple_response(data, template_len) ==
    IF AnyRaises(data, FirstN(data, TemplateItems),
                 LAMBDA x : Wrong(x, "content") \/ Wrong(x, "similarity_score"))
    THEN [raised |-> TRUE, answer |-> Idle]
    ELSE [raised |-> FALSE,
          answer |-> Answer("template", template_len, TRUE,
                            Prefix(data, TemplateItems),
                            Max2(0, Len(data) - TemplateItems))]

PlainChunks == 5

\* The loop of _generate_main_response that builds the context chunks:
\* `plain` counts the chunks that are not CSV chunks.
RECURSIVE ContextRaises(_, _)
ContextRaises(items, plain) ==
    IF items = <<>> THEN FALSE
    ELSE LET item == Head(items)
         IN IF IsCsv(item)
            THEN \/ Wrong(item, "metadata") \/ Wrong(item, "data_insights")
                 \/ Wrong(item, "content") \/ Wrong(item, "similarity_score")
                 \/ ContextRaises(Tail(items), plain)
            ELSE IF plain < PlainChunks
            THEN Wrong(item, "similarity_score") \/ ContextRaises(Tail(items), plain + 1)
            ELSE ContextRaises(Tail(items), plain)

\* SynthesizerAgent._generate_main_response: only the completion call is
\* guarded; its failure gives the template.
generate_main_response(data, llm, template_len) ==
    IF AnyRaises(data, FirstN(data, 5), ProbeRaises) \/ ContextRaises(data, 0)
    THEN [raised |-> TRUE, answer |-> Idle, completions |-> 0]
    ELSE IF llm.main.raises
    THEN create_simple_response(data, template_len) @@ [completions |-> 1]
    ELSE [raised |-> FALSE,
          answer |-> Answer("llm", llm.main.len, llm.main.has_digit, <<>>, 0),
          completions |-> 1]

IsNumber(item) == "value" \in DOMAIN item /\ ~Wrong(item, "value")

MaxKeyInsights == 5

\* SynthesizerAgent._extract_key_insights
extract_key_insights(data) ==
    IF AnyRaises(data, DOMAIN data, LAMBDA x : Wrong(x, "similarity_score"))
    THEN <<"Analysis of key patterns in your data">>
    ELSE LET metrics == SelectSeq(data, IsNumber)
             total == SumSimilarity(data)
             relevance == IF total > 80 * Len(data) THEN "High data relevance"
                          ELSE IF total > 60 * Len(data) THEN "Good data relevance"
                          ELSE "Moderate data relevance"
         IN Prefix(<<"Found relevant data points">>
                   \o [i \in DOMAIN metrics |-> "metric"]
                   \o <<relevance>>, MaxKeyInsights)

DefaultRecommendations == 3

MaxRecommendations == 5

\* SynthesizerAgent._generate_recommendations: the number of recommendations.
generate_recommendations(llm) ==
    IF llm.recs.raises THEN DefaultRecommendations
    ELSE Min2(llm.recs.lines, MaxRecommendations)

\* SynthesizerAgent._calculate_confidence: the mean of the factors, 0.5 when
\* the computation raises.
ConfidenceOfQuantityAndLength(data, answer) ==
    Frac(20 * Min2(Len(data), 5) + Min2(answer.len, 500) \div 5, 2)

calculate_confidence(data, answer) ==
    IF AnyRaises(data, DOMAIN data, LAMBDA x : HasScore(x) /\ Wrong(x, "similarity_score"))
    THEN Frac(50, 1)
    ELSE LET quantity == 20 * Min2(Len(data), 5)
             length == Min2(answer.len, 500) \div 5
             specific == IF answer.has_digit THEN 80 ELSE 40
             scored == ScoredItems(data)
         IN IF scored = <<>> THEN Frac(quantity + length + specific, 3)
            ELSE Frac(Len(scored) * (quantity + length + specific) + SumSimilarity(scored),
                      4 * Len(scored))

\* A member of sources_used: a dictionary for an evidence item, or the
\* string the no-data response puts there.
SourceInfo(item) ==
    [py |-> "dict", text |-> Get(item, "content", EmptyStr),
     type |-> Get(item, "type", "unknown"),
     file_name |-> IF Wrong(item, "metadata") THEN ""
                   ELSE Get(Get(item, "metadata", EmptyDict), "file_name", "")]

GenericSource ==
    [py |-> "dict", text |-> EmptyStr, type |-> "csv_data",
     file_name |-> "Multiple CSV files"]

NoDataSource ==
    [py |-> "str", text |-> EmptyStr, type |-> "", file_name |-> ""]

\* The loop of _identify_sources: one source for each file name, one for
\* each content without a file name.
RECURSIVE SourcesLoop(_, _, _, _)
SourcesLoop(items, seen_files, seen_hashes, sources) ==
    IF items = <<>> THEN sources
    ELSE LET info == SourceInfo(Head(items))
         IN IF info.file_name # ""
            THEN (IF info.file_name \in seen_files
                  THEN SourcesLoop(Tail(items), seen_files, seen_hashes, sources)
                  ELSE SourcesLoop(Tail(items), seen_files \cup {info.file_name},
                                   seen_hashes, Append(sources, info)))
            ELSE (IF info.text \in seen_hashes
                  THEN SourcesLoop(Tail(items), seen_files, seen_hashes, sources)
                  ELSE SourcesLoop(Tail(items), seen_files, seen_hashes \cup {info.text},
                                   Append(sources, info)))

\* SynthesizerAgent._identify_sources: slicing the content raises on an int.
identify_sources(data) ==
    IF AnyRaises(data, DOMAIN data, LAMBDA x : Wrong(x, "content"))
    THEN [raised |-> TRUE, sources |-> <<>>]
    ELSE LET sources == SourcesLoop(data, {}, {}, <<>>)
         IN [raised |-> FALSE,
             sources |-> IF sources = <<>> THEN <<GenericSource>> ELSE sources]

SynthesizedResponse(answer, confidence, sources_used, key_insights, data_summary, recommendations) ==
    [answer |-> answer, confidence |-> confidence, sources_used |-> sources_used,
     key_insights |-> key_insights, data_summary |-> data_summary,
     recommendations |-> recommendations]

\* The validation of the model class: sources_used is a List[Dict[str, Any]].
Validates(sources_used) ==
    \A i \in DOMAIN sources_used : sources_used[i].py = "dict"

SynthOutcome(raised, response, path, completions) ==
    [raised |-> raised, response |-> response, path |-> path,
     completion_calls |-> completions]

NoSummary ==
    [total_items |-> 0, error |-> TRUE, metrics_summary |-> {},
     quality_score |-> Frac(0, 1)]

\* SynthesizerAgent._handle_no_data_response
handle_no_data_response ==
    IF Validates(<<NoDataSource>>)
    THEN SynthOutcome(FALSE,
                      SynthesizedResponse(Answer("no_data", 0, TRUE, <<>>, 0), Frac(20, 1),
                                          <<NoDataSource>>,
                                          <<"No data available for analysis">>,
                                          NoSummary, 3),
                      "no_data", 0)
    ELSE SynthOutcome(TRUE, Idle, "no_data", 0)

\* SynthesizerAgent._create_fallback_response
create_fallback_response(data, template_len, completions) ==
    LET simple == create_simple_response(data, template_len)
        sources == identify_sources(data)
    IN IF simple.raised \/ sources.raised THEN SynthOutcome(TRUE, Idle, "fallback", completions)
       ELSE SynthOutcome(FALSE,
                SynthesizedResponse(
                    simple.answer, Frac(40, 1), sources.sources,
                    <<"Found relevant data points">>,
                    [total_items |-> Len(data), error |-> FALSE, metrics_summary |-> {},
                     quality_score |-> Frac(0, 1)], 0),
                "fallback", completions)

\* SynthesizerAgent._synthesize_response
synthesize_response(data, synthesis_type, cfg, llm, template_len) ==
    LET data_summary == analyze_retrieved_data(data)
        main == generate_main_response(data, llm, template_len)
        recommend == cfg.include_recommendations
                     /\ synthesis_type \in {"analytical", "strategic"}
        completions == main.completions + (IF recommend THEN 1 ELSE 0)
        sources == identify_sources(data)
    IN IF main.raised THEN create_fallback_response(data, template_len, main.completions)
       ELSE IF sources.raised \/ ~Validates(sources.sources)
       THEN create_fallback_response(data, template_len, completions)
       ELSE SynthOutcome(FALSE,
                SynthesizedResponse(main.answer, calculate_confidence(data, main.answer),
                                    sources.sources, extract_key_insights(data),
                                    data_summary,
                                    IF recommend THEN generate_recommendations(llm) ELSE 0),
                "normal", completions)

\* SynthesizerAgent.process under BaseAgent.execute
synthesize(data, synthesis_type, cfg, llm, template_len) ==
    LET o == IF data = <<>> THEN handle_no_data_response
             ELSE synthesize_response(data, synthesis_type, cfg, llm, template_len)
    IN [success |-> ~o.raised,
        error |-> IF o.raised THEN "Error in SynthesizerAgent" ELSE "",
        response |-> o.response, path |-> o.path,
        completion_calls |-> o.completion_calls]

(***************************************************************************)
(* Synthesis: the evidence lists and completions of the model, one call    *)
(***************************************************************************)
Mistyped(item, keys) == item @@ [mistyped |-> keys]

GoodVector == FormatResult(StubResult(1, "rev_1", 90))

GoodCsv == CsvItem(Upload("csv_u1", "g1", "Complete", TRUE), TotalRevenueQuery)

EvidencePool ==
    {GoodVector, GoodCsv, AggItem("Total", "Revenue", 55, 1, "sum"),
     [chunk_id |-> "rev_2"],
     Mistyped(GoodVector, {"content"}), Mistyped(GoodVector, {"similarity_score"}),
     Mistyped(GoodCsv, {"metadata"}), Mistyped(GoodCsv, {"data_insights"})}

\* n well-formed vector items, then one more item.
Padded(item, n) == [i \in 1..n |-> GoodVector] \o <<item>>

\* The items that are combined in every order; the others come alone or padded.
MixedPool ==
    {GoodVector, GoodCsv, AggItem("Total", "Revenue", 55, 1, "sum"),
     Mistyped(GoodVector, {"content"}), Mistyped(GoodVector, {"similarity_score"})}

EvidenceLists ==
    SeqsUpTo(MixedPool, MaxEvidence)
    \cup {<<x>> : x \in EvidencePool}
    \cup {Padded(x, TemplateItems) : x \in EvidencePool}
    \cup {Padded(x, PlainChunks) : x \in EvidencePool}

SynthesisTypes == {"standard", "analytical", "strategic"}

MainReply(raises, len, has_digit) ==
    [raises |-> raises, len |-> len, has_digit |-> has_digit]

RecsReply(raises, lines) == [raises |-> raises, lines |-> lines]

Completions ==
    [main : {MainReply(TRUE, 0, FALSE), MainReply(FALSE, 60, TRUE),
             MainReply(FALSE, 250, TRUE), MainReply(FALSE, 600, FALSE)},
     recs : {RecsReply(TRUE, 0), RecsReply(FALSE, 7)}]

SynthConfigs == [include_recommendations : BOOLEAN]

\* The length of the template text, which grows with the query text.
TemplateLens == {60, 700}

\* BaseAgent.execute(query, context) of a SynthesizerAgent, once.
SynthesizerProcess(data, synthesis_type, cfg, llm, template_len) ==
    /\ syn = Idle
    /\ syn' = [phase |-> "done", data |-> data, synthesis_type |-> synthesis_type,
               cfg |-> cfg, llm |-> llm,
               out |-> synthesize(data, synthesis_type, cfg, llm, template_len)]
    /\ UNCHANGED <<kb, nextId, calls, env, ret, cls, ses, stm, perf, tasks, db>>

InitSynth ==
    /\ kb = <<>>
    /\ nextId = 1
    /\ calls = <<>>
    /\ env = Idle
    /\ ret = Idle
    /\ cls = Idle
    /\ syn = Idle
    /\ ses = Idle
    /\ stm = Idle
    /\ perf = Idle
    /\ tasks = Idle
    /\ db = Idle

NextSynth ==
    \E data \in EvidenceLists, t \in SynthesisTypes, cfg \in SynthConfigs,
       llm \in Completions, n \in TemplateLens :
        SynthesizerProcess(data, t, cfg, llm, n)

SpecSynth == InitSynth /\ [][NextSynth]_vars

(***************************************************************************)
(* AgentOrchestrator.process_query_simple: one session, step by step       *)
(***************************************************************************)
\* AgentOrchestrator._determine_synthesis_type on the classification
\* dictionary of the routing response.
determine_synthesis_type(classification) ==
    LET query_type == Get(classification, "query_type", PyStr(""))
        complexity == Get(classification, "complexity_score", 1)
    IN IF complexity >= 7 \/ query_type = PyStr("multi_step_complex") THEN "strategic"
       ELSE IF complexity >= 4
               \/ query_type \in {PyStr("aggregation_analysis"), PyStr("trend_analysis")}
       THEN "analytical"
       ELSE "standard"

OrchestrationResult ==
    [final_response |-> Idle, confidence |-> Frac(0, 1), sources_used |-> <<>>,
     key_insights |-> <<>>, success |-> FALSE, error |-> ""]

SessionEnvs ==
    [service : {Service("unset", 0, 0, 0), Service("embedding", 0, 0, 0),
                Service("mock", 0, 0, 0), Service("stub", 90, 2, 1)},
     uploads : {<<>>, <<Upload("csv_u1", "g1", "Complete", TRUE)>>},
     query_expansion : {TRUE}]

SessionKbFor(service) ==
    IF service.kind = "embedding" THEN {<<>>, IndexOf(<<FullRow, BlankRow>>)} ELSE {<<>>}

SessionQueries == {TotalRevenueQuery, MkQuery({"what is"}, 3), MkQuery({}, 1)}

SessionFailures == {NoFailure, [first |-> TRUE, variants |-> {}]}

SessionCompletions ==
    [main : {MainReply(TRUE, 0, FALSE), MainReply(FALSE, 250, TRUE)},
     recs : {RecsReply(TRUE, 0)}]

DefaultSynthConfig == [include_recommendations |-> TRUE]

SessionTemplateLens == {60}

\* self.max_execution_time, in seconds.
max_execution_time == 60

\* The vector service is not set when the step runs: set_vector_service was
\* not called yet, or was called with None.
ServiceNotSet == [first |-> FALSE, variants |-> {}, unset |-> TRUE]

\* The retriever as a step finds it.
RetrieverAt(e, fail) ==
    IF Get(fail, "unset", FALSE) THEN [e EXCEPT !.service = Service("unset", 0, 0, 0)]
    ELSE e

\* One call of an agent's execute by the orchestrator: what it was given,
\* what came back, and the seconds since the start of the session at which
\* it began.
Invocation(agent, action, evidence, synthesis_type, success, output, started_at) ==
    [agent |-> agent, action |-> action, evidence |-> evidence,
     synthesis_type |-> synthesis_type, success |-> success, output |-> output,
     started_at |-> started_at]

AgentLog(agent, success, items, quality, completion_calls) ==
    [agent |-> agent, success |-> success, items |-> items, quality |-> quality,
     completion_calls |-> completion_calls]

\* The session goes on to the plan unless the routing failed.
ProceedsAlways(routing) == TRUE

Proceeds(routing) == routing.success

\* Step 1: the routing; the plan and the classification of its response, or
\* the return with the router's error.
RouteQuery(query, goal_id, llm) ==
    /\ ses = Idle
    /\ \E routing \in {router_execute(query, llm)} :
          ses' = [phase |-> IF Proceeds(routing) THEN "executing" ELSE "done",
                  query |-> query, goal_id |-> goal_id,
                  execution_plan |-> IF routing.success
                                     THEN routing.response.execution_plan ELSE <<>>,
                  classification |-> IF routing.success
                                     THEN routing.response.classification
                                     ELSE EmptyDict,
                  step |-> 1, retrieved_data |-> <<>>,
                  agent_logs |-> <<AgentLog("RouterAgent", routing.success, 0,
                                            Frac(0, 1), 0)>>,
                  invocations |-> <<Invocation("RouterAgent", "", <<>>, "",
                                               routing.success, <<>>, 0)>>,
                  elapsed |-> 0,
                  synthesis_type |-> "",
                  result |-> IF routing.success THEN OrchestrationResult
                             ELSE [OrchestrationResult EXCEPT !.error = routing.error]]
    /\ UNCHANGED <<kb, nextId, calls, env, ret, cls, syn, stm, perf, tasks, db>>

\* retrieved_data after a retrieval step: the data of a successful response
\* is appended, a failed response leaves the list as it is.
ExtendedOrCleared(retrieved_data, r) ==
    IF r.success THEN retrieved_data \o r.result.data ELSE <<>>

ExtendedWithNewItems(retrieved_data, r) ==
    IF r.success
    THEN retrieved_data
         \o SelectSeq(r.result.data, LAMBDA item : item \notin Range(retrieved_data))
    ELSE retrieved_data

Extended(retrieved_data, r) ==
    IF r.success THEN retrieved_data \o r.result.data ELSE retrieved_data

\* The action a retrieval step is executed with.
StepAction(step) == Get(step, "action", "vector_search")

\* Step 2, a step of the plan that names the RetrievalAgent.
RetrievalStep(fail) ==
    /\ ses.phase = "executing"
    /\ ses.step <= Len(ses.execution_plan)
    /\ ses.execution_plan[ses.step].agent = "RetrievalAgent"
    /\ \E r \in {retrieve(RetrieverAt(env, fail), kb, ses.goal_id, ses.query,
                         StepAction(ses.execution_plan[ses.step]), fail)} :
          ses' = [ses EXCEPT
                     !.step = @ + 1,
                     !.retrieved_data = Extended(@, r),
                     !.agent_logs = Append(@,
                         AgentLog("RetrievalAgent", r.success,
                                  IF r.success THEN Len(r.result.data) ELSE 0,
                                  IF r.success THEN r.result.search_quality
                                  ELSE Frac(0, 1),
                                  0)),
                     !.invocations = Append(@,
                         Invocation("RetrievalAgent",
                                    StepAction(ses.execution_plan[ses.step]),
                                    <<>>, "", r.success,
                                    IF r.success THEN r.result.data ELSE <<>>,
                                    ses.elapsed))]
    /\ UNCHANGED <<kb, nextId, calls, env, ret, cls, syn, stm, perf, tasks, db>>

\* Step 2, a step of the plan that names another agent: the loop passes it.
PassStep ==
    /\ ses.phase = "executing"
    /\ ses.step <= Len(ses.execution_plan)
    /\ ses.execution_plan[ses.step].agent # "RetrievalAgent"
    /\ ses' = [ses EXCEPT !.step = @ + 1]
    /\ UNCHANGED <<kb, nextId, calls, env, ret, cls, syn, stm, perf, tasks, db>>

\* Step 3: the synthesis over all that was retrieved, and the result.
SynthesisStep(llm, template_len) ==
    /\ ses.phase = "executing"
    /\ ses.step > Len(ses.execution_plan)
    /\ \E synthesis_type \in {determine_synthesis_type(ses.classification)} :
       \E o \in {synthesize(ses.retrieved_data, synthesis_type, DefaultSynthConfig, llm,
                            template_len)} :
          ses' = [ses EXCEPT
                     !.phase = "done",
                     !.synthesis_type = synthesis_type,
                     !.agent_logs = Append(@,
                         AgentLog("SynthesizerAgent", o.success, 0, Frac(0, 1),
                                  o.completion_calls)),
                     !.invocations = Append(@,
                         Invocation("SynthesizerAgent", "", ses.retrieved_data,
                                    synthesis_type, o.success, <<>>, ses.elapsed)),
                     !.result = IF o.success
                                THEN [final_response |-> o.response.answer,
                                      confidence |-> o.response.confidence,
                                      sources_used |-> o.response.sources_used,
                                      key_insights |-> o.response.key_insights,
                                      success |-> TRUE, error |-> ""]
                                ELSE [@ EXCEPT !.error = o.error]]
    /\ UNCHANGED <<kb, nextId, calls, env, ret, cls, syn, stm, perf, tasks, db>>

\* datetime.now() moves on while a session runs.
Tick ==
    /\ ses # Idle
    /\ ses.phase = "executing"
    /\ ses.elapsed < MaxTicks * (max_execution_time + 1)
    /\ ses' = [ses EXCEPT !.elapsed = @ + max_execution_time + 1]
    /\ UNCHANGED <<kb, nextId, calls, env, ret, cls, syn, stm, perf, tasks, db>>

(***************************************************************************)
(* AgentOrchestrator.process_query: the streaming mode, and the events     *)
(* ConversationAgent.generate_streaming_response puts on the wire          *)
(***************************************************************************)
\* One yield of process_query as the endpoint sends it.
Chunk(content) == [type |-> "chunk", content |-> content]

Chunks(content, n) == [i \in 1..n |-> Chunk(content)]

\* The event the endpoint sends when the generator is exhausted.
Complete == [type |-> "complete", content |-> ""]

StreamChunkSize == 100

\* AgentOrchestrator._chunk_text: the words are joined until a chunk is at
\* least chunk_size long; the words are taken as short against chunk_size.
chunk_text(answer, chunk_size) ==
    Chunks("answer", (answer.len + chunk_size - 1) \div chunk_size)

\* A titled list of n lines of the streamed answer: nothing when n is 0.
StreamSection(title, line, n) ==
    IF n = 0 THEN <<>>
    ELSE <<Chunk(title)>> \o Chunks(line, n) \o <<Chunk("blank")>>

\* What process_query yields for a synthesized response.
StreamResponse(synthesized) ==
    <<Chunk("results_header")>>
    \o chunk_text(synthesized.answer, StreamChunkSize)
    \o <<Chunk("blank")>>
    \o StreamSection("insights_header", "insight", Len(synthesized.key_insights))
    \o StreamSection("recommendations_header", "recommendation",
                     synthesized.recommendations)
    \o StreamSection("sources_header", "source", Len(synthesized.sources_used))
    \o <<Chunk("confidence_level")>>

\* Step 1 of process_query; `stm` holds the script the session is run with.
StreamRouteQuery(query, goal_id, llm) ==
    /\ stm # Idle
    /\ stm.phase = "scripted"
    /\ \E routing \in {router_execute(query, llm)} :
          stm' = [phase |-> IF Proceeds(routing) THEN "executing" ELSE "returned",
                  script |-> stm.script,
                  query |-> query, goal_id |-> goal_id,
                  execution_plan |-> IF routing.success
                                     THEN routing.response.execution_plan ELSE <<>>,
                  classification |-> IF routing.success
                                     THEN routing.response.classification
                                     ELSE EmptyDict,
                  step |-> 1, retrieved_data |-> <<>>,
                  agent_logs |-> <<AgentLog("RouterAgent", routing.success, 0,
                                            Frac(0, 1), 0)>>,
                  invocations |-> <<Invocation("RouterAgent", "", <<>>, "",
                                               routing.success, <<>>, 0)>>,
                  elapsed |-> 0,
                  synthesis_type |-> "",
                  events |-> <<Chunk("analyzing")>>
                             \o (IF routing.success
                                 THEN <<Chunk("classified"), Chunk("confidence"),
                                        Chunk("planning")>>
                                 ELSE <<Chunk("failed_to_analyze")>>),
                  result |-> IF routing.success THEN OrchestrationResult
                             ELSE [OrchestrationResult EXCEPT !.error = routing.error]]
    /\ UNCHANGED <<kb, nextId, calls, env, ret, cls, syn, ses, perf, tasks, db>>

\* The action a retrieval step is executed with in the streaming mode.
StreamStepActionFixed(step) == "vector_search"

StreamStepAction(step) == Get(step, "action", "")

\* One turn of the loop over the plan: the step is announced, and a step of
\* the RetrievalAgent is executed.
StreamPlanStep(fail) ==
    /\ stm # Idle
    /\ stm.phase = "executing"
    /\ stm.step <= Len(stm.execution_plan)
    /\ IF Get(stm.execution_plan[stm.step], "agent", "") = "RetrievalAgent"
       THEN \E r \in {retrieve(RetrieverAt(env, fail), kb, stm.goal_id, stm.query,
                               StreamStepAction(stm.execution_plan[stm.step]), fail)} :
               stm' = [stm EXCEPT
                          !.step = @ + 1,
                          !.retrieved_data = Extended(@, r),
                          !.agent_logs = Append(@,
                              AgentLog("RetrievalAgent", r.success,
                                       IF r.success THEN Len(r.result.data) ELSE 0,
                                       IF r.success THEN r.result.search_quality
                                       ELSE Frac(0, 1),
                                       0)),
                          !.invocations = Append(@,
                              Invocation("RetrievalAgent",
                                         StreamStepAction(stm.execution_plan[stm.step]),
                                         <<>>, "", r.success,
                                         IF r.success THEN r.result.data ELSE <<>>,
                                         stm.elapsed)),
                          !.events = @ \o <<Chunk("step"),
                                            IF r.success THEN Chunk("retrieved")
                                            ELSE Chunk("retrieval_issue")>>]
       ELSE stm' = [stm EXCEPT !.step = @ + 1, !.events = Append(@, Chunk("step"))]
    /\ UNCHANGED <<kb, nextId, calls, env, ret, cls, syn, ses, perf, tasks, db>>

\* Step 3 of process_query: the synthesis, the streamed answer or the error,
\* and the closing lines.
StreamSynthesis(llm, template_len) ==
    /\ stm # Idle
    /\ stm.phase = "executing"
    /\ stm.step > Len(stm.execution_plan)
    /\ \E synthesis_type \in {determine_synthesis_type(stm.classification)} :
       \E o \in {synthesize(stm.retrieved_data, synthesis_type, DefaultSynthConfig, llm,
                            template_len)} :
          stm' = [stm EXCEPT
                     !.phase = "returned",
                     !.synthesis_type = synthesis_type,
                     !.agent_logs = Append(@,
                         AgentLog("SynthesizerAgent", o.success, 0, Frac(0, 1),
                                  o.completion_calls)),
                     !.invocations = Append(@,
                         Invocation("SynthesizerAgent", "", stm.retrieved_data,
                                    synthesis_type, o.success, <<>>, stm.elapsed)),
                     !.events = @ \o <<Chunk("generate"), Chunk("synthesizing")>>
                                \o (IF o.success THEN StreamResponse(o.response)
                                    ELSE <<Chunk("failed_to_synthesize")>>)
                                \o <<Chunk("rule"), Chunk("completed")>>,
                     !.result = IF o.success
                                THEN [final_response |-> o.response.answer,
                                      confidence |-> o.response.confidence,
                                      sources_used |-> o.response.sources_used,
                                      key_insights |-> o.response.key_insights,
                                      success |-> TRUE, error |-> ""]
                                ELSE [@ EXCEPT !.error = o.error]]
    /\ UNCHANGED <<kb, nextId, calls, env, ret, cls, syn, ses, perf, tasks, db>>

\* generate_streaming_response after the last chunk: the completion event.
StreamCompleteEarly ==
    /\ stm # Idle
    /\ stm.phase = "executing"
    /\ Complete \notin Range(stm.events)
    /\ stm' = [stm EXCEPT !.events = Append(@, Complete)]
    /\ UNCHANGED <<kb, nextId, calls, env, ret, cls, syn, ses, perf, tasks, db>>

StreamComplete ==
    /\ stm # Idle
    /\ stm.phase = "returned"
    /\ stm' = [stm EXCEPT !.phase = "done", !.events = Append(@, Complete)]
    /\ UNCHANGED <<kb, nextId, calls, env, ret, cls, syn, ses, perf, tasks, db>>

StreamTick ==
    /\ stm # Idle
    /\ stm.phase = "executing"
    /\ stm.elapsed < MaxTicks * (max_execution_time + 1)
    /\ stm' = [stm EXCEPT !.elapsed = @ + max_execution_time + 1]
    /\ UNCHANGED <<kb, nextId, calls, env, ret, cls, syn, ses, perf, tasks, db>>

InitSession ==
    /\ env \in SessionEnvs
    /\ kb \in SessionKbFor(env.service)
    /\ nextId = Len(kb) + 1
    /\ calls = <<>>
    /\ ret = Idle
    /\ cls = Idle
    /\ syn = Idle
    /\ ses = Idle
    /\ stm = Idle
    /\ perf = Idle
    /\ tasks = Idle
    /\ db = Idle

NextSession ==
    \/ \E q \in SessionQueries, g \in Goals, llm \in LlmReplies : RouteQuery(q, g, llm)
    \/ \E f \in SessionFailures : RetrievalStep(f)
    \/ PassStep
    \/ \E llm \in SessionCompletions, n \in SessionTemplateLens : SynthesisStep(llm, n)

SpecSession == InitSession /\ [][NextSession]_vars

(***************************************************************************)
(* The two modes side by side: one script of query, context and responses  *)
(* of the classifier, the retriever and the synthesizer is run by          *)
(* process_query_simple and then by process_query                          *)
(***************************************************************************)
ModeEnvs ==
    [service : {Service("embedding", 0, 0, 0), Service("stub", 90, 2, 1)},
     uploads : {<<>>, <<Upload("csv_u1", "g1", "Complete", TRUE)>>},
     query_expansion : {TRUE}]

ModeReplies ==
    {LlmFailure, LlmReply(FALSE, "aggregation_analysis", 90, 4),
     LlmReply(FALSE, "trend_analysis", 90, 1), LlmReply(FALSE, "multi_step_complex", 90, 8)}

ModeFailures == {NoFailure, [first |-> TRUE, variants |-> {}], ServiceNotSet}

\* A query that is not text is scripted with a failing completion only: the
\* router then fails, and no later step reads the query.
Scripts ==
    {sc \in [query : {TotalRevenueQuery, MkQuery({"what is"}, 3), NotText},
             goal_id : {"g1"},
             llm : ModeReplies,
             fails : [1..2 -> ModeFailures],
             completion : SessionCompletions,
             template_len : SessionTemplateLens] :
        IsStr(sc.query) \/ UsesFallback(sc.llm)}

InitModes ==
    /\ env \in ModeEnvs
    /\ kb \in SessionKbFor(env.service)
    /\ nextId = Len(kb) + 1
    /\ calls = <<>>
    /\ ret = Idle
    /\ cls = Idle
    /\ syn = Idle
    /\ ses = Idle
    /\ stm \in {[phase |-> "scripted", script |-> sc] : sc \in Scripts}
    /\ perf = Idle
    /\ tasks = Idle
    /\ db = Idle

Batched == ses # Idle /\ ses.phase = "done"

NextModes ==
    \/ RouteQuery(stm.script.query, stm.script.goal_id, stm.script.llm)
    \/ RetrievalStep(stm.script.fails[ses.step])
    \/ PassStep
    \/ SynthesisStep(stm.script.completion, stm.script.template_len)
    \/ Tick
    \/ Batched /\ StreamRouteQuery(stm.script.query, stm.script.goal_id, stm.script.llm)
    \/ StreamPlanStep(stm.script.fails[Min2(stm.step, 2)])
    \/ StreamSynthesis(stm.script.completion, stm.script.template_len)
    \/ StreamTick
    \/ StreamComplete

SpecModes == InitModes /\ [][NextModes]_vars

(***************************************************************************)
(* BaseAgent.execute and the performance metrics of an agent               *)
(***************************************************************************)
MaxExecutions == 2

\* What the awaited process of the agent does: it returns an AgentResponse,
\* successful or not, it returns something that is no AgentResponse, or it
\* raises an exception whose text may be empty.
ProcessOutcomes ==
    {[kind |-> "returned", success |-> TRUE, error |-> ""],
     [kind |-> "returned", success |-> FALSE, error |-> "Vector service not initialized"],
     [kind |-> "returned_none"],
     [kind |-> "raised", message |-> "connection refused"],
     [kind |-> "raised", message |-> ""]}

\* time.time() - start_time, in hundredths of a second.
ElapsedTimes == {1, 3}

\* BaseAgent.__init__: the metrics of a new agent.
NewMetrics ==
    [total_calls |-> 0, successful_calls |-> 0,
     average_response_time |-> Frac(0, 1), last_error |-> ""]

\* The try block of execute reaches its return: process returned, and what it
\* returned takes the execution_time.
ReachesReturnAlways(outcome) == TRUE

ReachesReturn(outcome) == outcome.kind = "returned"

\* str(e) of what the try block raised.
ExceptionText(outcome) ==
    IF outcome.kind = "raised" THEN outcome.message
    ELSE "'NoneType' object has no attribute 'execution_time'"

\* BaseAgent._update_average_response_time, after successful_calls grew.
update_average_response_time(m, new_time) ==
    IF m.successful_calls = 1
    THEN [m EXCEPT !.average_response_time = Frac(new_time, 1)]
    ELSE [m EXCEPT !.average_response_time =
              Frac(@.num * (m.successful_calls - 1) + new_time * @.den,
                   @.den * m.successful_calls)]

\* The except clause of execute: the response it builds.
ErrorResponse(agent_name, outcome, elapsed) ==
    [agent_name |-> agent_name, success |-> FALSE, response |-> Idle,
     execution_time |-> elapsed,
     error |-> "Error in " \o agent_name \o ": " \o ExceptionText(outcome)]

\* BaseAgent.execute up to its await: the call is counted and process starts.
ExecuteCall(query, outcome, elapsed) ==
    /\ Len(tasks) < MaxExecutions
    /\ perf' = [perf EXCEPT !.total_calls = @ + 1]
    /\ tasks' = Append(tasks, [pc |-> "awaiting", query |-> query,
                               outcome |-> outcome, elapsed |-> elapsed])
    /\ UNCHANGED <<kb, nextId, calls, env, ret, cls, syn, ses, stm, db>>

\* BaseAgent.execute from the await on: process has returned or raised.
ExecuteReturn(i) ==
    /\ tasks[i].pc = "awaiting"
    /\ IF ReachesReturn(tasks[i].outcome)
       THEN /\ perf' = update_average_response_time(
                           [perf EXCEPT !.successful_calls = @ + 1], tasks[i].elapsed)
            /\ tasks' = [tasks EXCEPT ![i] =
                   [@ EXCEPT !.pc = "done"] @@
                   [result |-> [agent_name |-> "RetrievalAgent",
                                success |-> Get(tasks[i].outcome, "success", FALSE),
                                error |-> Get(tasks[i].outcome, "error", ""),
                                execution_time |-> tasks[i].elapsed]]]
       ELSE /\ perf' = [perf EXCEPT !.last_error =
                   ErrorResponse("RetrievalAgent", tasks[i].outcome, tasks[i].elapsed).error]
            /\ tasks' = [tasks EXCEPT ![i] =
                   [@ EXCEPT !.pc = "done"] @@
                   [result |-> ErrorResponse("RetrievalAgent", tasks[i].outcome,
                                             tasks[i].elapsed)]]
    /\ UNCHANGED <<kb, nextId, calls, env, ret, cls, syn, ses, stm, db>>

InitExecute ==
    /\ kb = <<>>
    /\ nextId = 1
    /\ calls = <<>>
    /\ env = Idle
    /\ ret = Idle
    /\ cls = Idle
    /\ syn = Idle
    /\ ses = Idle
    /\ stm = Idle
    /\ perf = NewMetrics
    /\ tasks = <<>>
    /\ db = Idle

NextExecute ==
    \/ \E query \in {TotalRevenueQuery, NotText}, outcome \in ProcessOutcomes,
          elapsed \in ElapsedTimes :
           ExecuteCall(query, outcome, elapsed)
    \/ \E i \in DOMAIN tasks : ExecuteReturn(i)

SpecExecute == InitExecute /\ [][NextExecute]_vars

(***************************************************************************)
(* The chunk builder over tables, short ones and ones beyond the cap       *)
(***************************************************************************)
TextRow == [Revenue |-> Str("n/a"), Region |-> Str("east")]

HalfRow == [Revenue |-> Num(2), Region |-> NaN]

\* A table of n rows without a numeric column; the rows in `blank` have no
\* value in any cell.
LongTable(n, blank) == [i \in 1..n |-> IF i \in blank THEN BlankRow ELSE TextRow]

ChunkDatasets ==
    SeqsUpTo({FullRow, BlankRow, TextRow, HalfRow}, MaxRows + 1)
    \cup {LongTable(n, blank) : n \in {RecordCap - 1, RecordCap, RecordCap + 1},
                                blank \in {{}, {2}, {RecordCap + 1}}}

\* VectorEmbeddingService.chunk_csv_data of a parsed upload.
ChunkCsvData(df, goal_id) ==
    /\ tasks = Idle
    /\ tasks' = [phase |-> "done", df |-> df, goal_id |-> goal_id,
                 chunks |-> chunk_csv_data(df, goal_id)]
    /\ UNCHANGED <<kb, nextId, calls, env, ret, cls, syn, ses, stm, perf, db>>

NextChunks == \E df \in ChunkDatasets, goal_id \in Goals : ChunkCsvData(df, goal_id)

SpecChunks == InitRouter /\ [][NextChunks]_vars

(***************************************************************************)
(* Concurrent calls of store_knowledge_base on one collection              *)
(***************************************************************************)
MaxWriters == 2

\* Batches that hold no text twice.
WriterBatches ==
    {b \in Batches : \A i, j \in DOMAIN b : i # j => b[i].text # b[j].text}

\* store_knowledge_base up to its loop: the embeddings of the batch are made.
StoreBegin(goal_id, chunks) ==
    /\ Len(tasks) < MaxWriters
    /\ tasks' = Append(tasks,
           [pc |-> IF chunks = <<>> THEN "done" ELSE "loop", goal_id |-> goal_id,
            chunks |-> chunks, i |-> 1, documents |-> <<>>, chunk_ids |-> <<>>])
    /\ UNCHANGED <<kb, nextId, calls, env, ret, cls, syn, ses, stm, perf, db>>

\* One turn of the loop: find_one on the collection as it is now.
StoreCheck(t) ==
    /\ tasks[t].pc = "loop"
    /\ \E loop \in {StoreLoop(kb, tasks[t].goal_id, <<tasks[t].chunks[tasks[t].i]>>, 1,
                              tasks[t].documents, tasks[t].chunk_ids)} :
           tasks' = [tasks EXCEPT ![t] =
               [@ EXCEPT !.documents = loop.documents,
                         !.chunk_ids = loop.chunk_ids,
                         !.i = @ + 1,
                         !.pc = IF tasks[t].i = Len(tasks[t].chunks)
                                THEN "insert" ELSE "loop"]]
    /\ UNCHANGED <<kb, nextId, calls, env, ret, cls, syn, ses, stm, perf, db>>

\* insert_many, one document at a time in order, then the return.
StoreInsert(t) ==
    /\ tasks[t].pc = "insert"
    /\ IF tasks[t].documents = <<>>
       THEN /\ tasks' = [tasks EXCEPT ![t].pc = "done"]
            /\ UNCHANGED <<kb, nextId>>
       ELSE /\ kb' = InsertMany(kb, nextId, <<Head(tasks[t].documents)>>)
            /\ nextId' = nextId + 1
            /\ tasks' = [tasks EXCEPT ![t] =
                   [@ EXCEPT !.documents = Tail(@),
                             !.chunk_ids = @ \o InsertedIds(nextId, <<1>>)]]
    /\ UNCHANGED <<calls, env, ret, cls, syn, ses, stm, perf, db>>

InitWriters ==
    /\ kb = <<>>
    /\ nextId = 1
    /\ calls = <<>>
    /\ env = Idle
    /\ ret = Idle
    /\ cls = Idle
    /\ syn = Idle
    /\ ses = Idle
    /\ stm = Idle
    /\ perf = Idle
    /\ tasks = <<>>
    /\ db = Idle

NextWriters ==
    \/ \E goal_id \in Goals, chunks \in WriterBatches : StoreBegin(goal_id, chunks)
    \/ \E t \in DOMAIN tasks : StoreCheck(t)
    \/ \E t \in DOMAIN tasks : StoreInsert(t)

SpecWriters == InitWriters /\ [][NextWriters]_vars

(***************************************************************************)
(* Concurrent approve_plan requests                                        *)
(***************************************************************************)
MaxRequests == 2

\* db.strategic_plans after plan generation: three plans of g1, one of g2.
PlanIds == {"p1", "p2", "p3", "p4"}

GeneratedPlans ==
    [p \in PlanIds |-> [goal_id |-> IF p = "p4" THEN "g2" ELSE "g1", status |-> "Pending"]]

\* crud_planning.get_plan: the plan, or nothing.
get_plan(plans, plan_id) ==
    IF plan_id \in DOMAIN plans THEN <<[id |-> plan_id] @@ plans[plan_id]>> ELSE <<>>

\* crud_planning.update_plan_status.
update_plan_status(plans, plan_id, status) ==
    [p \in DOMAIN plans |-> IF p = plan_id THEN [plans[p] EXCEPT !.status = status]
                            ELSE plans[p]]

\* crud_planning.update_plans_status_by_goal_id.
update_plans_status_by_goal_id(plans, goal_id, status, exclude_plan_id) ==
    [p \in DOMAIN plans |->
        IF plans[p].goal_id = goal_id /\ p # exclude_plan_id
        THEN [plans[p] EXCEPT !.status = status]
        ELSE plans[p]]

\* approve_plan: the plan is fetched, a plan that is missing is a 404.
ApproveFetch(plan_id) ==
    /\ Len(tasks) < MaxRequests
    /\ tasks' = Append(tasks,
           IF get_plan(db.plans, plan_id) = <<>>
           THEN [pc |-> "done", plan_id |-> plan_id, status_code |-> 404]
           ELSE [pc |-> "approve", plan_id |-> plan_id, status_code |-> 0,
                 plan |-> get_plan(db.plans, plan_id)[1]])
    /\ UNCHANGED <<kb, nextId, calls, env, ret, cls, syn, ses, stm, perf, db>>

\* approve_plan: the first write, the plan becomes Approved.
ApproveSet(t) ==
    /\ tasks[t].pc = "approve"
    /\ db' = [db EXCEPT !.plans = update_plan_status(@, tasks[t].plan_id, "Approved")]
    /\ tasks' = [tasks EXCEPT ![t].pc = "dismiss"]
    /\ UNCHANGED <<kb, nextId, calls, env, ret, cls, syn, ses, stm, perf>>

\* approve_plan: the second write, the other plans of the goal become
\* Dismissed.
ApproveDismiss(t) ==
    /\ tasks[t].pc = "dismiss"
    /\ db' = [db EXCEPT !.plans = update_plans_status_by_goal_id(
                  @, tasks[t].plan.goal_id, "Dismissed", tasks[t].plan_id)]
    /\ tasks' = [tasks EXCEPT ![t].pc = "complete"]
    /\ UNCHANGED <<kb, nextId, calls, env, ret, cls, syn, ses, stm, perf>>

\* approve_plan: the goal becomes Complete, the request returns.
ApproveComplete(t) ==
    /\ tasks[t].pc = "complete"
    /\ db' = [db EXCEPT !.goals[tasks[t].plan.goal_id] = "Complete"]
    /\ tasks' = [tasks EXCEPT ![t] = [@ EXCEPT !.pc = "done", !.status_code = 200]]
    /\ UNCHANGED <<kb, nextId, calls, env, ret, cls, syn, ses, stm, perf>>

InitApprove ==
    /\ kb = <<>>
    /\ nextId = 1
    /\ calls = <<>>
    /\ env = Idle
    /\ ret = Idle
    /\ cls = Idle
    /\ syn = Idle
    /\ ses = Idle
    /\ stm = Idle
    /\ perf = Idle
    /\ tasks = <<>>
    /\ db = [plans |-> GeneratedPlans, goals |-> [g \in Goals |-> "AWAITING_REVIEW"]]

NextApprove ==
    \/ \E plan_id \in PlanIds \cup {"p9"} : ApproveFetch(plan_id)
    \/ \E t \in DOMAIN tasks : ApproveSet(t)
    \/ \E t \in DOMAIN tasks : ApproveDismiss(t)
    \/ \E t \in DOMAIN tasks : ApproveComplete(t)

SpecApprove == InitApprove /\ [][NextApprove]_vars

(***************************************************************************)
(* The background tasks of an upload (celery_worker)                       *)
(***************************************************************************)
MaxFiles == 2

\* What is in an uploaded file: the required headers, other headers, or
\* nothing that can be read.
FileKinds == {"valid", "other_headers", "unreadable"}

\* What InsightGenerator and PlanGenerator do: return ids, return none, raise.
GeneratorOutcomes == {"ids", "none", "raises"}

\* An enqueued task and its argument: an upload, a goal, or the name of the
\* task that failed.
Task(name, upload_id, goal_id, task_name) ==
    [task |-> name, upload_id |-> upload_id, goal_id |-> goal_id, task_name |-> task_name]

Without(queue, i) == SubSeq(queue, 1, i - 1) \o SubSeq(queue, i + 1, Len(queue))

GoalUpdate(d, goal_id, status) == [d EXCEPT !.goals[goal_id] = status]

update_data_upload_status(d, upload_id, status) ==
    [d EXCEPT !.uploads[upload_id].status = status]

\* The upload endpoint: the upload is stored and its validation is enqueued.
UploadFile(goal_id, kind) ==
    /\ Len(db.uploads) < MaxFiles
    /\ db' = [db EXCEPT !.uploads =
                  Append(@, [goal_id |-> goal_id, file |-> kind, status |-> "Pending"])]
    /\ tasks' = Append(tasks, Task("validate_csv_file", Len(db.uploads) + 1, "", ""))
    /\ UNCHANGED <<kb, nextId, calls, env, ret, cls, syn, ses, stm, perf>>

\* validate_csv_file.
ValidateCsvFile(i) ==
    /\ tasks[i].task = "validate_csv_file"
    /\ \E upload \in {db.uploads[tasks[i].upload_id]} :
           CASE upload.file = "valid" ->
                    /\ db' = GoalUpdate(update_data_upload_status(db, tasks[i].upload_id, "Complete"),
                                        upload.goal_id, "Processing")
                    /\ tasks' = Append(Without(tasks, i),
                                       Task("generate_insights_from_upload", tasks[i].upload_id, "", ""))
             [] upload.file = "other_headers" ->
                    /\ db' = update_data_upload_status(db, tasks[i].upload_id, "Failed")
                    /\ tasks' = Without(tasks, i)
             [] OTHER ->
                    /\ db' = update_data_upload_status(db, tasks[i].upload_id, "Failed")
                    /\ tasks' = Append(Without(tasks, i),
                                       Task("notify_task_failure", 0, "", "validate_csv_file"))
    /\ UNCHANGED <<kb, nextId, calls, env, ret, cls, syn, ses, stm, perf>>

\* generate_insights_from_upload.
GenerateInsightsFromUpload(i, outcome) ==
    /\ tasks[i].task = "generate_insights_from_upload"
    /\ tasks' =
           CASE outcome = "ids" ->
                    Append(Without(tasks, i),
                           Task("generate_plans_for_goal", 0,
                                db.uploads[tasks[i].upload_id].goal_id, ""))
             [] outcome = "none" -> Without(tasks, i)
             [] OTHER ->
                    Append(Without(tasks, i),
                           Task("notify_task_failure", 0, "", "generate_insights_from_upload"))
    /\ UNCHANGED <<kb, nextId, calls, env, ret, cls, syn, ses, stm, perf, db>>

\* generate_plans_for_goal, called with the insight ids of the upload.
GeneratePlansForGoal(i, outcome) ==
    /\ tasks[i].task = "generate_plans_for_goal"
    /\ db' = GoalUpdate(db, tasks[i].goal_id,
                        IF outcome = "ids" THEN "AWAITING_REVIEW" ELSE "Failed")
    /\ tasks' = IF outcome = "raises"
                THEN Append(Without(tasks, i),
                            Task("notify_task_failure", 0, "", "generate_plans_for_goal"))
                ELSE Without(tasks, i)
    /\ UNCHANGED <<kb, nextId, calls, env, ret, cls, syn, ses, stm, perf>>

\* notify_task_failure: the failure is logged.
NotifyTaskFailure(i) ==
    /\ tasks[i].task = "notify_task_failure"
    /\ tasks' = Without(tasks, i)
    /\ UNCHANGED <<kb, nextId, calls, env, ret, cls, syn, ses, stm, perf, db>>

\* A worker takes an enqueued task and runs it.
RunTask ==
    \E i \in DOMAIN tasks :
        \/ ValidateCsvFile(i)
        \/ \E outcome \in GeneratorOutcomes : GenerateInsightsFromUpload(i, outcome)
        \/ \E outcome \in GeneratorOutcomes : GeneratePlansForGoal(i, outcome)
        \/ NotifyTaskFailure(i)

InitTasks ==
    /\ kb = <<>>
    /\ nextId = 1
    /\ calls = <<>>
    /\ env = Idle
    /\ ret = Idle
    /\ cls = Idle
    /\ syn = Idle
    /\ ses = Idle
    /\ stm = Idle
    /\ perf = Idle
    /\ tasks = <<>>
    /\ db = [uploads |-> <<>>, goals |-> [g \in Goals |-> "Draft"]]

NextTasks ==
    \/ \E goal_id \in Goals, kind \in FileKinds : UploadFile(goal_id, kind)
    \/ RunTask

SpecTasks == InitTasks /\ [][NextTasks]_vars

\* Every enqueued task is eventually run by a worker.
FairTasks == SpecTasks /\ WF_vars(RunTask)

(***************************************************************************)
(* Sessions that run concurrently on one orchestrator: process_query_simple *)
(* between the awaits of the agents' execute                               *)
(***************************************************************************)
MaxSessions == 2

AgentNames == {"RouterAgent", "RetrievalAgent", "SynthesizerAgent"}

\* The index the sessions read: one ingestion for g1, one for g2.
ConcurrentKb ==
    store_knowledge_base(IndexOf(<<FullRow>>), Len(IndexOf(<<FullRow>>)) + 1, "g2",
                         chunk_csv_data(<<FullRow, HalfRow>>, "g2")).kb

ConcurrentEnvs ==
    [service : {Service("embedding", 0, 0, 0), Service("stub", 90, 2, 1)},
     uploads : PartitionUploads, query_expansion : {TRUE}]

ConcurrentCompletion == [main |-> MainReply(FALSE, 250, TRUE), recs |-> RecsReply(TRUE, 0)]

\* execute of an agent up to its await, and after it.
CountedCall(p, agent) == [p EXCEPT ![agent].total_calls = @ + 1]

CountedReturn(p, agent, response) ==
    IF response.success
    THEN [p EXCEPT ![agent] =
              update_average_response_time([@ EXCEPT !.successful_calls = @ + 1], 1)]
    ELSE [p EXCEPT ![agent].last_error = response.error]

\* retrieved_data of session t after the response r of a retrieval step.
AccumulatedInFirstList(sessions, t, r) == Extended(sessions[1].retrieved_data, r)

Accumulated(sessions, t, r) == Extended(sessions[t].retrieved_data, r)

\* The first step at or after k that names the RetrievalAgent, or the end.
RECURSIVE NextRetrievalStep(_, _)
NextRetrievalStep(execution_plan, k) ==
    IF k > Len(execution_plan) \/ execution_plan[k].agent = "RetrievalAgent" THEN k
    ELSE NextRetrievalStep(execution_plan, k + 1)

\* process_query_simple up to the await of the router.
SessionStart(query, goal_id) ==
    /\ Len(tasks) < MaxSessions
    /\ perf' = CountedCall(perf, "RouterAgent")
    /\ tasks' = Append(tasks,
           [pc |-> "routing", query |-> query, goal_id |-> goal_id,
            execution_plan |-> <<>>, classification |-> EmptyDict, step |-> 1,
            retrieved_data |-> <<>>,
            evidence |-> <<>>, result |-> OrchestrationResult])
    /\ UNCHANGED <<kb, nextId, calls, env, ret, cls, syn, ses, stm, db>>

\* The router returns: the plan, or the end with the router's error.
SessionRouted(t, llm) ==
    /\ tasks[t].pc = "routing"
    /\ \E routing \in {router_execute(tasks[t].query, llm)} :
           /\ perf' = CountedReturn(perf, "RouterAgent", routing)
           /\ tasks' = [tasks EXCEPT ![t] =
                  IF routing.success
                  THEN [@ EXCEPT !.pc = "plan",
                                 !.execution_plan = routing.response.execution_plan,
                                 !.classification = routing.response.classification,
                                 !.step = NextRetrievalStep(routing.response.execution_plan, 1)]
                  ELSE [@ EXCEPT !.pc = "done", !.result.error = routing.error]]
    /\ UNCHANGED <<kb, nextId, calls, env, ret, cls, syn, ses, stm, db>>

\* The loop reaches a retrieval step: up to the await of the retriever.
SessionRetrieveCall(t) ==
    /\ tasks[t].pc = "plan"
    /\ tasks[t].step <= Len(tasks[t].execution_plan)
    /\ perf' = CountedCall(perf, "RetrievalAgent")
    /\ tasks' = [tasks EXCEPT ![t].pc = "retrieving"]
    /\ UNCHANGED <<kb, nextId, calls, env, ret, cls, syn, ses, stm, db>>

\* The retriever returns: its data joins the list of the session.
SessionRetrieveReturn(t) ==
    /\ tasks[t].pc = "retrieving"
    /\ \E r \in {retrieve(env, kb, tasks[t].goal_id, tasks[t].query,
                         StepAction(tasks[t].execution_plan[tasks[t].step]), NoFailure)} :
           /\ perf' = CountedReturn(perf, "RetrievalAgent", r)
           /\ tasks' = [tasks EXCEPT ![t] =
                  [@ EXCEPT !.pc = "plan",
                            !.retrieved_data = Accumulated(tasks, t, r),
                            !.step = NextRetrievalStep(tasks[t].execution_plan,
                                                       tasks[t].step + 1)]]
    /\ UNCHANGED <<kb, nextId, calls, env, ret, cls, syn, ses, stm, db>>

\* The loop is over: up to the await of the synthesizer.
SessionSynthesisCall(t) ==
    /\ tasks[t].pc = "plan"
    /\ tasks[t].step > Len(tasks[t].execution_plan)
    /\ perf' = CountedCall(perf, "SynthesizerAgent")
    /\ tasks' = [tasks EXCEPT ![t] =
           [@ EXCEPT !.pc = "synthesizing", !.evidence = tasks[t].retrieved_data]]
    /\ UNCHANGED <<kb, nextId, calls, env, ret, cls, syn, ses, stm, db>>

\* The synthesizer returns: the result of the session.
SessionSynthesisReturn(t, llm) ==
    /\ tasks[t].pc = "synthesizing"
    /\ \E o \in {synthesize(tasks[t].evidence,
                              determine_synthesis_type(tasks[t].classification),
                              DefaultSynthConfig, llm, 60)} :
           /\ perf' = CountedReturn(perf, "SynthesizerAgent", o)
           /\ tasks' = [tasks EXCEPT ![t] =
                  [@ EXCEPT !.pc = "done",
                            !.result = IF o.success
                                       THEN [final_response |-> o.response.answer,
                                             confidence |-> o.response.confidence,
                                             sources_used |-> o.response.sources_used,
                                             key_insights |-> o.response.key_insights,
                                             success |-> TRUE, error |-> ""]
                                       ELSE [@ EXCEPT !.error = o.error]]]
    /\ UNCHANGED <<kb, nextId, calls, env, ret, cls, syn, ses, stm, db>>

InitConcurrent ==
    /\ kb = ConcurrentKb
    /\ nextId = Len(kb) + 1
    /\ calls = <<>>
    /\ env \in ConcurrentEnvs
    /\ ret = Idle
    /\ cls = Idle
    /\ syn = Idle
    /\ ses = Idle
    /\ stm = Idle
    /\ perf = [a \in AgentNames |-> NewMetrics]
    /\ tasks = <<>>
    /\ db = Idle

NextConcurrent ==
    \/ \E query \in PartitionQueries \cup {NotText}, goal_id \in Goals :
           SessionStart(query, goal_id)
    \/ \E t \in DOMAIN tasks : SessionRouted(t, LlmFailure)
    \/ \E t \in DOMAIN tasks : SessionRetrieveCall(t)
    \/ \E t \in DOMAIN tasks : SessionRetrieveReturn(t)
    \/ \E t \in DOMAIN tasks : SessionSynthesisCall(t)
    \/ \E t \in DOMAIN tasks : SessionSynthesisReturn(t, ConcurrentCompletion)

SpecConcurrent == InitConcurrent /\ [][NextConcurrent]_vars

(***************************************************************************)
(* Claims on the index                                                     *)
(***************************************************************************)
\* The second of two ingestions of one dataset into one partition, made one
\* after the other.
SecondIngestion(i) ==
    /\ i \in DOMAIN calls /\ i > 1
    /\ calls[i].op = "ingest" /\ calls[i - 1].op = "ingest"
    /\ calls[i].goal_id = calls[i - 1].goal_id
    /\ calls[i].df = calls[i - 1].df

\* C1: ingesting an identical dataset twice into one partition returns on the
\* second call the same set of chunk ids as on the first, stores no additional
\* chunk, and leaves the partition's knowledge_stats total unchanged.
C1_IdempotentIngestion ==
    \A i \in DOMAIN calls :
        SecondIngestion(i) =>
            /\ Range(calls[i].ids) = Range(calls[i - 1].ids)
            /\ calls[i].stored = 0
            /\ calls[i].total_after = calls[i].total_before

C1_Witness ==
    \E i \in DOMAIN calls :
        /\ SecondIngestion(i)
        /\ calls[i - 1].stored >= 3
        /\ Cardinality(Range(calls[i].ids)) >= 3

\* C2: in every reachable state no two stored chunks have the same
\* (partition_id, content_hash), whatever batches were passed to upsert.
C2_UniquePerPartitionHash ==
    \A i, j \in DOMAIN kb :
        (i # j /\ kb[i].goal_id = kb[j].goal_id) => kb[i].chunk_hash # kb[j].chunk_hash

(***************************************************************************)
(* Claims on retrieval                                                     *)
(***************************************************************************)
Retrieved == ret # Idle /\ ret.out.success

VectorSearched == Retrieved /\ ret.out.trace.searched

\* C6 as stated: in the vector path the variants are searched if and only if
\* the quality of the first search is below 0.5.
C6_ExpansionIffLowQuality ==
    VectorSearched =>
        (ret.out.trace.variant_searches > 0 <=> FracLess(ret.out.trace.first_quality, 50))

\* C6 amended: the variants are searched if and only if the quality of the
\* first search is below 0.5 and query expansion is enabled in the agent's
\* configuration.
C6_ExpansionIffLowQualityAndEnabled ==
    VectorSearched =>
        (ret.out.trace.variant_searches > 0
            <=> (FracLess(ret.out.trace.first_quality, 50) /\ env.query_expansion))

C6_Witness ==
    /\ VectorSearched
    /\ env.query_expansion
    /\ ret.out.trace.variant_searches > 1
    /\ FracLess(ret.out.trace.first_quality, 50)
    /\ FracAtLeast(ret.out.trace.first_quality, 49)

HasCsvItem(data) == \E i \in DOMAIN data : Get(data[i], "type", "") = "csv_data"

\* C7: whenever the returned evidence holds a csv_data item, the returned
\* quality is at least 0.8, for either action and whatever the vector path
\* returned.
C7_StructuredEvidenceQuality ==
    (Retrieved /\ HasCsvItem(ret.out.result.data))
        => FracAtLeast(ret.out.result.search_quality, 80)

C7_Witness ==
    /\ Retrieved
    /\ ret.action = "aggregate_data"
    /\ HasCsvItem(ret.out.result.data)
    /\ Len(ret.out.result.data) > 1
    /\ FracLess(ret.out.trace.vector_quality, 80)
    /\ FracIs(ret.out.result.search_quality, 80)

\* C8: the aggregate action, when the partition has structured evidence,
\* returns the evidence of the underlying hybrid retrieval item for item.
C8_AggregateShortCircuit ==
    (/\ Retrieved
     /\ ret.action = "aggregate_data"
     /\ get_uploaded_csv_data(env.uploads, ret.goal_id, ret.query) # <<>>)
        => ret.out.result.data = ret.out.hybrid.data

C8_Witness ==
    /\ Retrieved
    /\ ret.action = "aggregate_data"
    /\ get_uploaded_csv_data(env.uploads, ret.goal_id, ret.query) # <<>>
    /\ Len(ret.out.result.data) >= 3
    /\ ret.out.result.data = ret.out.hybrid.data
    /\ \E i \in DOMAIN ret.out.hybrid.data : ret.out.hybrid.data[i].type = "vector_search"

ScenarioA ==
    /\ Retrieved
    /\ env.service.kind = "embedding"
    /\ kb = IndexOf(TenRowTable)
    /\ get_uploaded_csv_data(env.uploads, "g1", TotalRevenueQuery) = <<>>
    /\ ret.goal_id = "g1"
    /\ ret.query = TotalRevenueQuery
    /\ ret.action = "aggregate_data"
    /\ ret.fail = NoFailure

\* C9: after a ten-row table with a numeric Revenue column is ingested, the
\* aggregate retrieval for "total revenue" returns an item whose metric is
\* "Total Revenue" and whose value is the sum of the ten values.
C9_TotalRevenue ==
    ScenarioA =>
        \E i \in DOMAIN ret.out.result.data :
            /\ Get(ret.out.result.data[i], "metric", <<>>) = <<"Total", "Revenue">>
            /\ ret.out.result.data[i].value
                   = Frac(SumCells(ColumnCells(TenRowTable, "Revenue")), 1)

(***************************************************************************)
(* Claims on the router                                                    *)
(***************************************************************************)
FallbackIntents ==
    {"simple_data_lookup", "aggregation_analysis", "trend_analysis", "comparison_query",
     "general_question"}

ReturnedByFallback(t) ==
    \E q \in RouterQueries : fallback_classification(q).query_type = t

\* C5 as stated: every one of the 7 intents is returned by the keyword
\* fallback for at least one query, and a fallback classification has
\* confidence exactly 0.6.
C5_AllIntentsReachable ==
    (cls # Idle /\ cls.fallback) =>
        /\ \A t \in QueryTypes : ReturnedByFallback(t)
        /\ cls.out.classification.confidence = 60

\* C5 amended: the keyword fallback returns the five intents simple lookup,
\* aggregation, trend, comparison and general, each for at least one query,
\* and never multi-step-complex or planning; a fallback classification has
\* confidence exactly 0.6.
C5_FiveIntentsReachable ==
    (cls # Idle /\ cls.fallback) =>
        /\ cls.out.classification.query_type.value \in FallbackIntents
        /\ \A t \in QueryTypes : ReturnedByFallback(t) <=> t \in FallbackIntents
        /\ cls.out.classification.confidence = 60

C5_Witness ==
    /\ cls # Idle
    /\ cls.fallback
    /\ Has(cls.query, "plan")
    /\ \A t \in FallbackIntents : ReturnedByFallback(t)
    /\ cls.out.classification.query_type.value = "general_question"

(***************************************************************************)
(* Claims on the synthesizer                                               *)
(***************************************************************************)
\* C4: for every non-empty evidence list and every failure of the
\* completion, synthesis returns a valid response and raises nothing; when
\* the normal path raises, the response is the template over the first 3
\* items with confidence 0.4.
C4_SynthesisNeverThrows ==
    (syn # Idle /\ syn.data # <<>>) =>
        /\ syn.out.success
        /\ syn.out.path = "fallback" =>
               /\ syn.out.response.answer.kind = "template"
               /\ syn.out.response.answer.listed = Prefix(syn.data, TemplateItems)
               /\ FracIs(syn.out.response.confidence, 40)

C4_FallbackServes ==
    /\ syn # Idle
    /\ syn.out.success
    /\ syn.out.path = "fallback"
    /\ FracIs(syn.out.response.confidence, 40)

(***************************************************************************)
(* Claims on the session                                                   *)
(***************************************************************************)
SessionDone == ses # Idle /\ ses.phase = "done"

EmptyPartition ==
    /\ env.service.kind = "embedding"
    /\ GoalChunks(kb, ses.goal_id) = <<>>
    /\ get_uploaded_csv_data(env.uploads, ses.goal_id, ses.query) = <<>>

RetrievalLogs == SelectSeq(ses.agent_logs, LAMBDA l : l.agent = "RetrievalAgent")

\* C3: a session on a partition with no chunks and no structured evidence
\* ends successfully with 0 evidence items and retrieval quality 0.0; its
\* result is the no-data response with confidence 0.2, made without a call
\* of the completion by the synthesizer.
C3_EmptyPartitionSession ==
    (SessionDone /\ EmptyPartition) =>
        /\ ses.result.success
        /\ ses.retrieved_data = <<>>
        /\ \A i \in DOMAIN RetrievalLogs :
               RetrievalLogs[i].success => FracIs(RetrievalLogs[i].quality, 0)
        /\ ses.result.final_response.kind = "no_data"
        /\ FracIs(ses.result.confidence, 20)
        /\ ses.agent_logs[Len(ses.agent_logs)].completion_calls = 0

ExpectedSynthesisType(query_type, complexity) ==
    IF complexity >= 7 \/ query_type = "multi_step_complex" THEN "strategic"
    ELSE IF complexity >= 4 \/ query_type \in {"aggregation_analysis", "trend_analysis"}
    THEN "analytical"
    ELSE "standard"

\* C10: the synthesis_type handed to the synthesizer is "strategic" when the
\* complexity score is at least 7 or the intent is multi-step-complex, else
\* "analytical" when the score is at least 4 or the intent is aggregation or
\* trend, else "standard".
C10_SynthesisTypeMapping ==
    SessionDone =>
        ses.synthesis_type
            = ExpectedSynthesisType(ses.classification.query_type.value,
                                    ses.classification.complexity_score)

(***************************************************************************)
(* Claims on the two modes of a session                                    *)
(***************************************************************************)
Streamed == stm # Idle /\ stm.phase = "done"

\* The invocations of an agent in a session, in the order they were made.
InvocationsOf(session, agent) ==
    SelectSeq(session.invocations, LAMBDA v : v.agent = agent)

\* What the router answers to the scripted query.
ScriptedRouting == router_execute(stm.script.query, stm.script.llm)

\* A session whose classification failed: it invokes neither the retriever nor
\* the synthesizer, and its error is the error of the classifier.
FailedAtClassification(session) ==
    /\ InvocationsOf(session, "RetrievalAgent") = <<>>
    /\ InvocationsOf(session, "SynthesizerAgent") = <<>>
    /\ ~session.result.success
    /\ session.result.error = ScriptedRouting.error
    /\ session.result.error # ""

\* C11: when the classification fails, the session ends failed at once in
\* either mode: no retrieval step and no synthesis is invoked afterwards, and
\* the error reported is the classifier's error verbatim; the stream holds
\* the announcement, the failure and the completion event, nothing else.
C11_ClassificationFailureEndsSession ==
    ~ScriptedRouting.success =>
        /\ Batched => FailedAtClassification(ses)
        /\ Streamed =>
               /\ FailedAtClassification(stm)
               /\ stm.events
                      = <<Chunk("analyzing"), Chunk("failed_to_analyze"), Complete>>
        /\ (ses # Idle /\ ses.phase = "executing") => FALSE
        /\ ("events" \in DOMAIN stm /\ stm.phase = "executing") => FALSE

C11_Witness ==
    /\ ~ScriptedRouting.success
    /\ Batched /\ Streamed
    /\ ses.result.error = "Error in RouterAgent: 'list' object has no attribute 'lower'"
    /\ stm.result.error = ses.result.error

\* The plan of the session was executed to its end.
PlanExecuted(session) ==
    /\ session.step = Len(session.execution_plan) + 1
    /\ Len(InvocationsOf(session, "RetrievalAgent"))
           = Len(SelectSeq(session.execution_plan,
                           LAMBDA step : step.agent = "RetrievalAgent"))

\* The evidence the synthesizer of the session was invoked with.
EvidenceOf(session) == InvocationsOf(session, "SynthesizerAgent")[1].evidence

\* A retrieval step of the session failed, and the session went on: the plan
\* was executed to its end, what the other steps retrieved is in the
\* evidence, and the synthesizer was invoked.
SurvivesFailedRetrieval(session) ==
    (\E i \in DOMAIN InvocationsOf(session, "RetrievalAgent") :
         ~InvocationsOf(session, "RetrievalAgent")[i].success) =>
        /\ PlanExecuted(session)
        /\ Len(InvocationsOf(session, "SynthesizerAgent")) = 1
        /\ \A j \in DOMAIN InvocationsOf(session, "RetrievalAgent") :
               Range(InvocationsOf(session, "RetrievalAgent")[j].output)
                   \subseteq Range(EvidenceOf(session))

\* C12: a failure of one retrieval step is not fatal: in either mode all later
\* steps of the plan are executed, the evidence of the other steps is kept,
\* and the synthesizer is invoked; the stream reports the failed step.
C12_RetrievalFailureNonFatal ==
    /\ Batched => SurvivesFailedRetrieval(ses)
    /\ Streamed =>
           /\ SurvivesFailedRetrieval(stm)
           /\ Len(SelectSeq(stm.events, LAMBDA e : e = Chunk("retrieval_issue")))
                  = Len(SelectSeq(InvocationsOf(stm, "RetrievalAgent"),
                                  LAMBDA v : ~v.success))

\* The first retrieval step failed, the second retrieved something, and the
\* synthesizer was invoked with it.
FailedThenRetrieved(session) ==
    /\ Len(InvocationsOf(session, "RetrievalAgent")) = 2
    /\ ~InvocationsOf(session, "RetrievalAgent")[1].success
    /\ InvocationsOf(session, "RetrievalAgent")[2].success
    /\ InvocationsOf(session, "RetrievalAgent")[2].output # <<>>
    /\ EvidenceOf(session) = InvocationsOf(session, "RetrievalAgent")[2].output

C12_Witness ==
    /\ Batched /\ Streamed
    /\ FailedThenRetrieved(ses)
    /\ FailedThenRetrieved(stm)

\* The first retrieval step retrieved something and the second failed.
C12_WitnessLaterFailure ==
    /\ Batched
    /\ Len(InvocationsOf(ses, "RetrievalAgent")) = 2
    /\ InvocationsOf(ses, "RetrievalAgent")[1].output # <<>>
    /\ ~InvocationsOf(ses, "RetrievalAgent")[2].success
    /\ EvidenceOf(ses) = InvocationsOf(ses, "RetrievalAgent")[1].output

\* The outputs of a sequence of invocations, one after the other.
RECURSIVE OutputsInOrder(_)
OutputsInOrder(invocations) ==
    IF invocations = <<>> THEN <<>>
    ELSE Head(invocations).output \o OutputsInOrder(Tail(invocations))

\* The retrieval invocations of the session are those of the retrieval steps
\* of its plan, in the order of the plan.
InPlanOrder(session) ==
    /\ PlanExecuted(session)
    /\ \A j \in DOMAIN InvocationsOf(session, "RetrievalAgent") :
           InvocationsOf(session, "RetrievalAgent")[j].action
               = SelectSeq(session.execution_plan,
                           LAMBDA step : step.agent = "RetrievalAgent")[j].action

\* One synthesis, made last, over the outputs of the successful retrieval
\* steps as they came.
SynthesizedOnceOverAll(session) ==
    /\ Len(InvocationsOf(session, "SynthesizerAgent")) = 1
    /\ session.invocations[Len(session.invocations)].agent = "SynthesizerAgent"
    /\ InPlanOrder(session)
    /\ EvidenceOf(session)
           = OutputsInOrder(SelectSeq(InvocationsOf(session, "RetrievalAgent"),
                                      LAMBDA v : v.success))

\* C13: in a session whose classification succeeds, in either mode, the
\* synthesizer is invoked exactly once, after every retrieval step of the
\* plan, and its evidence is the concatenation, in the order of the plan and
\* with nothing removed, of the outputs of the successful retrieval steps;
\* while the plan is executed the synthesizer has not been invoked.
C13_OneSynthesisOverConcatenation ==
    /\ (Batched /\ ScriptedRouting.success) => SynthesizedOnceOverAll(ses)
    /\ (Streamed /\ ScriptedRouting.success) => SynthesizedOnceOverAll(stm)
    /\ (ses # Idle /\ ses.phase = "executing") =>
           InvocationsOf(ses, "SynthesizerAgent") = <<>>
    /\ ("events" \in DOMAIN stm /\ stm.phase = "executing") =>
           InvocationsOf(stm, "SynthesizerAgent") = <<>>

\* Two retrieval steps returned the same item, and the evidence holds it
\* twice.
RepeatedEvidence(session) ==
    /\ Len(InvocationsOf(session, "RetrievalAgent")) = 2
    /\ Range(InvocationsOf(session, "RetrievalAgent")[1].output)
           \cap Range(InvocationsOf(session, "RetrievalAgent")[2].output) # {}
    /\ Len(EvidenceOf(session))
           = Len(InvocationsOf(session, "RetrievalAgent")[1].output)
             + Len(InvocationsOf(session, "RetrievalAgent")[2].output)

C13_Witness ==
    /\ Batched /\ Streamed
    /\ RepeatedEvidence(ses)
    /\ RepeatedEvidence(stm)

\* What a mode computed in an invocation, whenever it was started.
Computed(v) ==
    [agent |-> v.agent, action |-> v.action, evidence |-> v.evidence,
     synthesis_type |-> v.synthesis_type, success |-> v.success, output |-> v.output]

StepSequence(session) ==
    [i \in DOMAIN session.invocations |-> Computed(session.invocations[i])]

\* C14: for one query and context and the same responses of the classifier,
\* the retriever and the synthesizer, process_query and process_query_simple
\* compute the same sequence of steps: one classification, one retrieval for
\* each retrieval step of the plan, in its order and with its action, and one
\* synthesis with the same evidence and synthesis_type; the result they end
\* with is the same too.
C14_ModesComputeSameSteps ==
    (Batched /\ Streamed) =>
        /\ StepSequence(stm) = StepSequence(ses)
        /\ Len(InvocationsOf(stm, "RouterAgent")) = 1
        /\ stm.invocations[1].agent = "RouterAgent"
        /\ stm.execution_plan = ses.execution_plan
        /\ stm.synthesis_type = ses.synthesis_type
        /\ stm.result = ses.result

\* Both modes ran a plan of two retrieval steps of different actions, one at
\* a later time than the other.
C14_Witness ==
    /\ Batched /\ Streamed
    /\ Len(InvocationsOf(stm, "RetrievalAgent")) = 2
    /\ InvocationsOf(stm, "RetrievalAgent")[1].action = "vector_search"
    /\ InvocationsOf(stm, "RetrievalAgent")[2].action = "aggregate_data"
    /\ InvocationsOf(stm, "RetrievalAgent")[2].output # <<>>
    /\ StepSequence(stm) = StepSequence(ses)
    /\ stm.invocations # ses.invocations
    /\ stm.result.success

\* No step of the session started after the budget had expired, and a
\* session that ran longer than the budget ended failed.
WithinBudget(session) ==
    /\ \A i \in DOMAIN session.invocations :
           session.invocations[i].started_at <= max_execution_time
    /\ (session.phase = "done" /\ session.elapsed > max_execution_time) =>
           /\ ~session.result.success
           /\ session.result.error # ""

\* C15: the budget max_execution_time of a session is enforced: a session
\* whose elapsed time exceeds it ends failed with a timeout error, and no
\* plan step and no synthesis starts after the budget has expired.
C15_BudgetEnforced ==
    /\ ses # Idle => WithinBudget(ses)
    /\ "events" \in DOMAIN stm => WithinBudget(stm)

(***************************************************************************)
(* Claims on the stream                                                    *)
(***************************************************************************)
ProgressEvents ==
    {"analyzing", "classified", "confidence", "planning", "step", "retrieved",
     "retrieval_issue", "generate", "synthesizing"}

ContentEvents ==
    {"results_header", "answer", "blank", "insights_header", "insight",
     "recommendations_header", "recommendation", "sources_header", "source",
     "confidence_level"}

ErrorEvents == {"failed_to_analyze", "failed_to_synthesize"}

\* The place of an event in the order of the wire: progress, then the answer
\* or the error that stands for it, then the closing lines, then the
\* completion event.
WireRank(e) ==
    IF e.type = "complete" THEN 4
    ELSE IF e.content \in ProgressEvents THEN 1
    ELSE IF e.content \in ContentEvents \cup ErrorEvents THEN 2
    ELSE 3

C16_WitnessSynthesisError ==
    /\ Streamed
    /\ Chunk("failed_to_synthesize") \in Range(stm.events)
    /\ SubSeq(stm.events, Len(stm.events) - 2, Len(stm.events))
           = <<Chunk("rule"), Chunk("completed"), Complete>>

(***************************************************************************)
(* Claims on the failures a caller sees                                    *)
(***************************************************************************)
\* The session failed for its caller although it was classified and stayed
\* within its budget.
FailedOtherwise(session) ==
    /\ ~session.result.success
    /\ ScriptedRouting.success
    /\ session.elapsed <= max_execution_time

\* C17: a session ends with a failure its caller sees (success false, error
\* set) only when the classification fails or the session exceeds its
\* budget; a run in which a retrieval step fails, or the completion fails
\* while the answer or the recommendations are generated, ends with a usable
\* result.
C17_FailureOnlyOnClassificationOrTimeout ==
    /\ Batched => ~FailedOtherwise(ses)
    /\ Streamed => ~FailedOtherwise(stm)

(***************************************************************************)
(* Claims on the partitions                                                *)
(***************************************************************************)
\* A result of search is a stored chunk of the partition.
SearchResultOf(item, goal_id) ==
    \E i \in DOMAIN kb :
        /\ kb[i].goal_id = goal_id
        /\ kb[i].id = item.id
        /\ kb[i].text = item.text
        /\ kb[i].metadata = item.metadata

\* An evidence item is made of an upload of the partition, or carries the
\* metadata of a stored chunk of the partition.
EvidenceOfPartition(item, goal_id) ==
    IF item.type = "csv_data"
    THEN \E i \in DOMAIN env.uploads :
             /\ env.uploads[i].goal_id = goal_id
             /\ env.uploads[i].id = item.chunk_id
    ELSE \E i \in DOMAIN kb :
             kb[i].goal_id = goal_id /\ kb[i].metadata = item.metadata

NoLeak ==
    ret # Idle =>
        /\ ret.op = "search" =>
               \A i \in DOMAIN ret.out : SearchResultOf(ret.out[i], ret.goal_id)
        /\ ret.op = "retrieve" =>
               /\ \A i \in DOMAIN ret.out : EvidenceOfPartition(ret.out[i], ret.goal_id)
               /\ Len(SelectSeq(ret.out, LAMBDA item : item.type = "vector_search"))
                      <= Len(SelectSeq(kb, LAMBDA d : d.goal_id = ret.goal_id))

\* A deletion in a partition leaves the chunks of every other partition as
\* they are.
DeleteElsewhereUntouched ==
    \A g \in Goals :
        DeleteKnowledge(g) =>
            SelectSeq(kb', LAMBDA d : d.goal_id # g) = SelectSeq(kb, LAMBDA d : d.goal_id # g)

\* C18: after any sequence of ingestions and deletions over several
\* partitions, every item search returns for a partition and every evidence
\* item retrieve returns for it belongs to that partition, and a deletion in
\* a partition removes no chunk of another partition.
C18_NoCrossPartitionLeakage == []NoLeak /\ [][DeleteElsewhereUntouched]_vars

\* The chunks of one partition were stored and deleted, and a search of the
\* other partition then returned chunks.
C18_Witness ==
    /\ ret # Idle /\ ret.op = "search"
    /\ ret.out # <<>>
    /\ \E i \in DOMAIN calls :
           /\ calls[i].op = "delete"
           /\ calls[i].goal_id # ret.goal_id
           /\ calls[i].total_before > 0

\* Both partitions hold chunks, and a search of one of them returned chunks.
C18_WitnessSearch ==
    /\ ret # Idle /\ ret.op = "search"
    /\ ret.out # <<>>
    /\ \E d \in Range(kb) : d.goal_id # ret.goal_id

\* A retrieval in a partition while the other partition holds chunks and an
\* upload returned a vector item and the item of its own upload.
C18_WitnessRetrieve ==
    /\ ret # Idle /\ ret.op = "retrieve"
    /\ \E d \in Range(kb) : d.goal_id # ret.goal_id
    /\ \E item \in Range(ret.out) : item.type = "vector_search"
    /\ \E item \in Range(ret.out) : item.type = "csv_data"

(***************************************************************************)
(* Claims on the execution plan                                            *)
(***************************************************************************)
\* Two routings with the same classification and different query text.
SameClassification ==
    /\ cls # Idle
    /\ cls.phase = "again"
    /\ cls.out.classification = cls.first.out.classification
    /\ cls.query # cls.first.query

\* What the steps of a plan do, step by step.
Shape(plan) ==
    [i \in DOMAIN plan |-> <<plan[i].step, plan[i].agent, plan[i].action, plan[i].description>>]

\* retrieve-synthesize, retrieve-aggregate-synthesize, and the default
\* retrieve-synthesize.
CanonicalShapes ==
    {<< <<1, "RetrievalAgent", "vector_search", "Search for relevant data">>,
        <<2, "SynthesizerAgent", "synthesize_response", "Format and present results">> >>,
     << <<1, "RetrievalAgent", "vector_search", "Retrieve relevant data for aggregation">>,
        <<2, "RetrievalAgent", "aggregate_data", "Perform requested calculations">>,
        <<3, "SynthesizerAgent", "synthesize_response",
          "Present aggregated results with insights">> >>,
     << <<1, "RetrievalAgent", "vector_search", "Search for relevant information">>,
        <<2, "SynthesizerAgent", "synthesize_response",
          "Generate comprehensive response">> >>}

\* The plans agree in every field of every step but the named ones.
AgreeExcept(plan, other, excepted) ==
    /\ DOMAIN plan = DOMAIN other
    /\ \A i \in DOMAIN plan :
           /\ DOMAIN plan[i] = DOMAIN other[i]
           /\ \A f \in DOMAIN plan[i] :
                  <<i, f>> \notin excepted => plan[i][f] = other[i][f]

\* C19 as stated: two routings with the same classification and different
\* query text give plans equal in every field of every step, of one of the
\* canonical shapes.
C19_PlanIndependentOfQuery ==
    SameClassification =>
        /\ AgreeExcept(cls.out.execution_plan, cls.first.out.execution_plan, {})
        /\ Shape(cls.out.execution_plan) \in CanonicalShapes

\* C19, amended: two routings with the same classification and different
\* query text give plans equal in every field of every step except the input
\* of the first step, which is the query text of the routing; the plan is of
\* one of the three canonical shapes, and of the same one for the same
\* strategy.
C19_PlanIndependentOfQueryButInput ==
    /\ SameClassification =>
           /\ AgreeExcept(cls.out.execution_plan, cls.first.out.execution_plan,
                          {<<1, "input">>})
           /\ cls.out.execution_plan[1].input = cls.query
           /\ cls.first.out.execution_plan[1].input = cls.first.query
    /\ (cls # Idle /\ cls.phase = "again") =>
           /\ Shape(cls.out.execution_plan) \in CanonicalShapes
           /\ cls.out.strategy = cls.first.out.strategy =>
                  AgreeExcept(cls.out.execution_plan, cls.first.out.execution_plan,
                              {<<1, "input">>})

\* Two routings to the plan of three steps that differ in the input of the
\* first step only.
C19_Witness ==
    /\ SameClassification
    /\ Len(cls.out.execution_plan) = 3
    /\ cls.out.execution_plan[1].input # cls.first.out.execution_plan[1].input
    /\ AgreeExcept(cls.out.execution_plan, cls.first.out.execution_plan, {<<1, "input">>})

(***************************************************************************)
(* Claims on the failures of the vector path                               *)
(***************************************************************************)
\* The retrieval was made with no vector service set.
NeverSet == env.service.kind = "unset"

\* The retrieval succeeded although the vector path gave nothing: no vector
\* item is returned, the items of the uploads of the goal are, and a result
\* with no item at all has quality 0.0.
DegradedToStructured ==
    /\ ret.out.success
    /\ \A i \in DOMAIN ret.out.hybrid.data :
           ret.out.hybrid.data[i].type # "vector_search"
    /\ ret.out.hybrid.data = get_uploaded_csv_data(env.uploads, ret.goal_id, ret.query)
    /\ CsvItems(ret.out.result.data) = ret.out.hybrid.data
    /\ ret.out.result.data = <<>> => FracIs(ret.out.result.search_quality, 0)

\* C20 as stated: any exception on the vector path, a vector service that
\* was never set included, degrades to zero vector evidence and never aborts
\* the retrieval: the structured path runs and its evidence is returned, and
\* a result with 0 evidence and quality 0.0 is a success.
C20_VectorFailureNeverAborts ==
    /\ (ret # Idle /\ (ret.fail.first \/ NeverSet)) => DegradedToStructured
    /\ ret # Idle => ret.out.success

\* C20, amended: with a vector service set, any exception on the vector path
\* degrades to zero vector evidence and never aborts the retrieval: the
\* structured path runs and its evidence is returned, and a result with 0
\* evidence and quality 0.0 is a success; with a vector service that was
\* never set the retrieval fails with the error that says so, and the
\* structured path does not run.
C20_VectorFailureNeverAbortsWhenSet ==
    /\ (ret # Idle /\ ~NeverSet) =>
           /\ ret.out.success
           /\ ret.fail.first => DegradedToStructured
    /\ (ret # Idle /\ NeverSet) =>
           /\ ~ret.out.success
           /\ ret.out.error = "Error in RetrievalAgent: Vector service not initialized"
           /\ ret.out.result = Idle

\* The first search raised, and the item of the upload of the goal was
\* returned alone.
C20_Witness ==
    /\ ret # Idle /\ ~NeverSet
    /\ ret.fail.first
    /\ ret.out.success
    /\ Len(ret.out.result.data) = 1
    /\ ret.out.result.data[1].type = "csv_data"

\* The first search raised and there is no upload: a success with no item.
C20_WitnessEmpty ==
    /\ ret # Idle /\ ~NeverSet
    /\ ret.fail.first
    /\ ret.out.success
    /\ ret.out.result.data = <<>>
    /\ FracIs(ret.out.result.search_quality, 0)

(***************************************************************************)
(* Claims on the classification                                            *)
(***************************************************************************)
Classified == cls # Idle /\ cls.phase = "done" /\ "routing" \in DOMAIN cls

\* The completion raised, or returned what cannot be parsed or lacks a field
\* or names no intent.
CompletionUnusable ==
    \/ cls.llm.raises
    \/ "fault" \in DOMAIN cls.llm
    \/ cls.llm.query_type \notin QueryTypes

\* C21: the classification never fails the pipeline: for every query, whether
\* the completion raises, returns output that cannot be parsed or lacks
\* required fields, or returns well-formed output, the routing reports
\* success with a classification whose intent is one of the 7; from an
\* unusable completion it is the classification of the keyword rules, with
\* confidence 0.6.
C21_ClassifyNeverFails ==
    Classified =>
        /\ cls.routing.success
        /\ cls.routing.error = ""
        /\ cls.routing.response.classification.query_type.value \in QueryTypes
        /\ CompletionUnusable =>
               /\ cls.routing.response.classification.confidence = 60
               /\ cls.routing.response.classification
                      = classification_dict(fallback_classification(cls.query))
        /\ ~CompletionUnusable =>
               cls.routing.response.classification.query_type.value = cls.llm.query_type

\* A completion whose output lacks a field although it names an intent: the
\* routing succeeded with the intent of the keyword rules.
C21_Witness ==
    /\ Classified
    /\ "fault" \in DOMAIN cls.llm
    /\ cls.llm.fault = "missing_field"
    /\ cls.llm.query_type = "trend_analysis"
    /\ cls.routing.success
    /\ cls.routing.response.classification.query_type.value = "aggregation_analysis"

\* C26: every classification the routing returns, from the completion or
\* from the keyword rules, has an intent of the 7, a confidence in [0, 1]
\* and a complexity_score in 1..10, whatever the completion returns.
C26_ClassificationInRange ==
    (Classified /\ cls.routing.success) =>
        /\ cls.routing.response.classification.query_type.value \in QueryTypes
        /\ cls.routing.response.classification.confidence \in 0..100
        /\ cls.routing.response.classification.complexity_score \in 1..10

(***************************************************************************)
(* Claims on the confidence                                                *)
(***************************************************************************)
\* A synthesis over evidence that returned a response.
Synthesized == syn # Idle /\ syn.data # <<>> /\ syn.out.success

\* The signals, in hundredths: the adequacy of the number of items, of the
\* length of the answer, and the presence of a digit in the answer.
CountSignal(data) == Min2(20 * Len(data), 100)

LengthSignal(answer) == Min2(answer.len \div 5, 100)

DigitSignal(answer) == IF answer.has_digit THEN 80 ELSE 40

\* The sum of the similarity scores of the items, 0 for an item without one.
RECURSIVE SimilaritySum(_)
SimilaritySum(data) ==
    IF data = <<>> THEN 0
    ELSE (IF "similarity_score" \in DOMAIN Head(data) THEN Head(data).similarity_score
          ELSE 0)
         + SimilaritySum(Tail(data))

WithScore(data) == SelectSeq(data, LAMBDA item : "similarity_score" \in DOMAIN item)

\* q is the mean of the `signals` signals of which `others` is the sum of
\* all but the mean similarity sum / n.
IsMean(q, others, sum, n, signals) ==
    q.num * signals * n = (others * n + sum) * q.den

InUnitInterval(q) == q.den > 0 /\ q.num >= 0 /\ q.num <= 100 * q.den

OtherSignals(data, answer) ==
    CountSignal(data) + LengthSignal(answer) + DigitSignal(answer)

ScoreUnreadable ==
    \E i \in DOMAIN syn.data :
        /\ "similarity_score" \in DOMAIN syn.data[i]
        /\ "similarity_score" \in Get(syn.data[i], "mistyped", {})

C24_WitnessThreeSignals ==
    /\ Synthesized
    /\ syn.out.path = "normal"
    /\ Len(syn.data) = 1
    /\ WithScore(syn.data) = <<>>
    /\ syn.out.response.answer.len = 250
    /\ FracIs(syn.out.response.confidence, 50)

(***************************************************************************)
(* Claims on BaseAgent.execute                                             *)
(***************************************************************************)
\* The calls of execute that have returned to their caller.
Returned == {i \in DOMAIN tasks : tasks[i].pc = "done"}

\* C28: execute never propagates an exception: when process raises, the
\* caller gets a response with success false and a non-empty error; every
\* call increments total_calls exactly once, and successful_calls only when
\* process returned, so successful_calls <= total_calls at all times.
C28_ExecuteNeverPropagates ==
    /\ \A i \in Returned :
           /\ "result" \in DOMAIN tasks[i]
           /\ tasks[i].outcome.kind = "raised" =>
                  (~tasks[i].result.success /\ tasks[i].result.error # "")
    /\ perf.total_calls = Len(tasks)
    /\ perf.successful_calls <=
           Cardinality({i \in Returned : tasks[i].outcome.kind # "raised"})
    /\ perf.successful_calls <= perf.total_calls

\* Two calls on one agent whose awaits overlap: the first raised an exception
\* without text, the second returned.
C28_Witness ==
    /\ Len(tasks) = 2
    /\ Returned = {1, 2}
    /\ tasks[1].outcome = [kind |-> "raised", message |-> ""]
    /\ tasks[2].outcome.kind = "returned"
    /\ perf.total_calls = 2
    /\ perf.successful_calls = 1

(***************************************************************************)
(* Claims on the chunk builder                                             *)
(***************************************************************************)
Chunked == tasks # Idle /\ tasks.phase = "done"

ChunksOfType(type) == SelectSeq(tasks.chunks, LAMBDA c : c.type = type)

\* The rows under the cap, and those of them with a value in some cell.
RowsUnderCap == 1..Min2(Len(tasks.df), RecordCap)

RowsWithValue ==
    {i \in RowsUnderCap : \E j \in DOMAIN Columns : tasks.df[i][Columns[j]] # NaN}

OneSummaryWithTrueCount ==
    /\ Len(ChunksOfType("summary")) = 1
    /\ ChunksOfType("summary")[1].metadata.row_count = Len(tasks.df)

OneStatisticsPerNumericColumn ==
    /\ Len(ChunksOfType("statistics")) = Len(NumericCols(tasks.df))
    /\ \A j \in DOMAIN NumericCols(tasks.df) :
           Len(SelectSeq(ChunksOfType("statistics"),
                         LAMBDA c : c.metadata.column = NumericCols(tasks.df)[j])) = 1

C27_WitnessStatistics ==
    /\ Chunked
    /\ Len(tasks.df) = 2
    /\ Len(ChunksOfType("record")) = 2
    /\ Len(ChunksOfType("statistics")) = 1

(***************************************************************************)
(* Claims on the reformulation                                             *)
(***************************************************************************)
\* The retrieve call searched the variants of its query.
Reformulated == VectorSearched /\ ret.out.trace.variant_searches > 0

\* What the first search returned, and what the merge of the variant
\* searches returned.
FirstResults == ServiceSearch(env.service, kb, ret.goal_id, ret.query, max_chunks)

MergedResults ==
    expand_and_search(env.service, kb, ret.goal_id, ret.query, ret.fail.variants)

\* The id of the chunk a search result stands for.
ChunkIdOf(result) ==
    IF "chunk_id" \in DOMAIN result THEN result.chunk_id ELSE Get(result, "id", "")

\* The vector items of the evidence the search returned.
KeptItems == SelectSeq(ret.out.hybrid.data, LAMBDA item : item.type = "vector_search")

KeptResults == IF ret.out.trace.replaced THEN MergedResults ELSE FirstResults

\* C25: when the variants are searched, no two merged results share a chunk
\* id; the merged results replace those of the first search only if they are
\* strictly more; the quality is that of the results that are kept; and the
\* variants are searched in one pass, each once, even when the recomputed
\* quality stays below 0.5.
C25_ReformulationMerge ==
    Reformulated =>
        /\ \A i, j \in DOMAIN MergedResults :
               i # j => ChunkIdOf(MergedResults[i]) # ChunkIdOf(MergedResults[j])
        /\ ret.out.trace.replaced => Len(MergedResults) > Len(FirstResults)
        /\ Len(KeptItems) = Len(KeptResults)
        /\ \A i \in DOMAIN KeptItems :
               KeptItems[i].chunk_id = Get(KeptResults[i], "chunk_id", "")
        /\ ret.out.trace.vector_quality = calculate_search_quality(KeptResults)
        /\ ret.out.trace.variant_searches = Len(generate_query_variations(ret.query))

\* Variants that return the chunks of the first search and others: the merge
\* holds each once, replaces the first results, and the quality stays low.
C25_Witness ==
    /\ Reformulated
    /\ ret.out.trace.replaced
    /\ ret.out.trace.variant_searches >= 2
    /\ Len(FirstResults) >= 1
    /\ Len(MergedResults) > Len(FirstResults)
    /\ FracLess(ret.out.trace.vector_quality, 50)

\* The merge is no larger than the first results, which are kept.
C25_WitnessNotReplaced ==
    /\ Reformulated
    /\ ~ret.out.trace.replaced
    /\ MergedResults # <<>>
    /\ Len(KeptItems) = Len(FirstResults)

(***************************************************************************)
(* Claims on concurrent writes                                             *)
(***************************************************************************)
\* Two calls that have both returned.
BothReturned == Len(tasks) = 2 /\ tasks[1].pc = "done" /\ tasks[2].pc = "done"

\* The ids call t returned that are ids of stored chunks with this text.
IdsFor(t, text) ==
    {tasks[t].chunk_ids[k] : k \in DOMAIN tasks[t].chunk_ids}
    \cap {kb[i].id : i \in {j \in DOMAIN kb : kb[j].text = text}}

TextsOf(t) == {tasks[t].chunks[k].text : k \in DOMAIN tasks[t].chunks}

\* C23: for two upserts of overlapping text into one partition, in every
\* interleaving of their lookups and inserts, the store ends with at most one
\* chunk per (goal_id, chunk_hash), both calls return the same id for the
\* same text, and no stored chunk is ever without its text or its hash.
C23_ConcurrentUpsertsConsistent ==
    /\ \A i \in DOMAIN kb : "text" \in DOMAIN kb[i] /\ kb[i].chunk_hash = Md5(kb[i].text)
    /\ (BothReturned /\ tasks[1].goal_id = tasks[2].goal_id) =>
           /\ \A i, j \in DOMAIN kb :
                  (i # j /\ kb[i].goal_id = kb[j].goal_id)
                      => kb[i].chunk_hash # kb[j].chunk_hash
           /\ \A text \in TextsOf(1) \cap TextsOf(2) : IdsFor(1, text) = IdsFor(2, text)

(***************************************************************************)
(* Claims on the approval of plans                                         *)
(***************************************************************************)
\* The requests that found their plan, all of them run to completion.
Approvals == {t \in DOMAIN tasks : tasks[t].status_code # 404}

ApprovalsCompleted ==
    /\ Approvals # {}
    /\ \A t \in DOMAIN tasks : tasks[t].pc = "done"

PlansOf(goal_id) == {p \in DOMAIN db.plans : db.plans[p].goal_id = goal_id}

\* C29: after any number of approve_plan requests on the plans of one goal
\* have run to completion, in any interleaving of their writes, exactly one
\* plan of the goal is Approved and every other plan of it is Dismissed.
C29_ExactlyOneApproved ==
    ApprovalsCompleted =>
        \A t \in Approvals :
            /\ Cardinality({p \in PlansOf(tasks[t].plan.goal_id) :
                               db.plans[p].status = "Approved"}) = 1
            /\ \A p \in PlansOf(tasks[t].plan.goal_id) :
                   db.plans[p].status \in {"Approved", "Dismissed"}

(***************************************************************************)
(* Claims on the background tasks                                          *)
(***************************************************************************)
\* C30: every goal that a validated upload moved to Processing eventually
\* is AWAITING_REVIEW or Failed, whatever insight generation and plan
\* generation return or raise, when every enqueued task is eventually run.
C30_ProcessingEventuallyLeaves ==
    \A g \in Goals :
        (db.goals[g] = "Processing") ~> (db.goals[g] \in {"AWAITING_REVIEW", "Failed"})

(***************************************************************************)
(* Claims on concurrent sessions                                           *)
(***************************************************************************)
\* The evidence a session with this plan collects when it runs alone.
RECURSIVE SoloEvidence(_, _, _, _, _)
SoloEvidence(execution_plan, k, goal_id, query, retrieved_data) ==
    IF k > Len(execution_plan) THEN retrieved_data
    ELSE SoloEvidence(execution_plan, k + 1, goal_id, query,
             IF execution_plan[k].agent = "RetrievalAgent"
             THEN Extended(retrieved_data,
                           retrieve(env, kb, goal_id, query,
                                    StepAction(execution_plan[k]), NoFailure))
             ELSE retrieved_data)

\* The sessions that have handed their evidence to the synthesizer.
AtSynthesis == {t \in DOMAIN tasks : tasks[t].pc \in {"synthesizing", "done"}
                                     /\ tasks[t].execution_plan # <<>>}

\* The evidence handed to the synthesizer of a session holds the items its
\* own steps retrieved, in their order, and nothing else.
OwnEvidenceOnly ==
    \A t \in AtSynthesis :
        tasks[t].evidence = SoloEvidence(tasks[t].execution_plan, 1, tasks[t].goal_id,
                                         tasks[t].query, <<>>)

\* The calls of execute a session has made on an agent so far.
CallsBy(t, agent) ==
    CASE agent = "RouterAgent" -> 1
      [] agent = "RetrievalAgent" ->
             Cardinality({k \in DOMAIN tasks[t].execution_plan :
                             /\ tasks[t].execution_plan[k].agent = "RetrievalAgent"
                             /\ \/ k < tasks[t].step
                                \/ k = tasks[t].step /\ tasks[t].pc = "retrieving"})
      [] OTHER -> IF t \in AtSynthesis THEN 1 ELSE 0

RECURSIVE CallsByAll(_, _)
CallsByAll(n, agent) == IF n = 0 THEN 0 ELSE CallsBy(n, agent) + CallsByAll(n - 1, agent)

\* C22 as stated: concurrent sessions share no mutable state; the evidence
\* handed to the synthesizer of a session holds only what its own steps
\* retrieved, and nothing a session writes is read or overwritten by another:
\* the metrics a session updates count its own calls and no others.
C22_NoSharedMutableState ==
    /\ OwnEvidenceOnly
    /\ \A t \in DOMAIN tasks, agent \in AgentNames :
           perf[agent].total_calls = CallsBy(t, agent)

\* C22, amended: concurrent sessions on one orchestrator share no mutable
\* state but the performance metrics of its agents, which every session reads
\* and overwrites and which count the calls of all sessions; the evidence
\* handed to the synthesizer of a session holds only what its own steps
\* retrieved, in every interleaving.
C22_SharedMetricsOnly ==
    /\ OwnEvidenceOnly
    /\ \A agent \in AgentNames :
           /\ perf[agent].total_calls = CallsByAll(Len(tasks), agent)
           /\ perf[agent].successful_calls <= perf[agent].total_calls

\* Two sessions on different goals, their retrievals interleaved, both with
\* evidence, each handed its own.
C22_Witness ==
    /\ Len(tasks) = 2
    /\ AtSynthesis = {1, 2}
    /\ tasks[1].goal_id # tasks[2].goal_id
    /\ tasks[1].evidence # <<>>
    /\ tasks[2].evidence # <<>>
    /\ tasks[1].evidence # tasks[2].evidence
    /\ perf["RetrievalAgent"].total_calls >= 2

====
